---- MODULE Spec2Model ----
(***************************************************************************)
(* State-machine model of the scylla proxy pool manager:                   *)
(*   - the proxies table and the ProxyService statements that change it    *)
(*     (scylla/services/proxy_service.py, scylla/__init__.py),             *)
(*   - the validation and crawl tasks that issue those statements from     *)
(*     several workers (scylla/tasks/*.py),                                *)
(*   - the periodic task loop (scylla/core/scheduler.py).                  *)
(* Timestamps are integers on one clock `now`; speed is in milliseconds.   *)
(***************************************************************************)
EXTENDS Integers, Sequences, FiniteSets, TLC

VARIABLES
    rows,       \* proxies table: id -> row, for the ids present
    nextId,     \* next value of the SERIAL id sequence
    now,        \* the clock read by NOW() / datetime.now()
    batch,      \* per worker: candidates of an add_batch still to be inserted
    results,    \* per worker: verdicts of a validate_batch still to be recorded
    issued,     \* history: number of verdicts the validator has handed out
    calls,      \* history: id -> the record_validation_result calls applied to it
    overlapped, \* history: ids that got a verdict while another worker held one for it
    tried,      \* history: key -> the candidates inserted for it since it was last absent
    raced       \* history: keys inserted while another worker had an insert for them pending

VARIABLES
    running,    \* per worker: Scheduler.running
    task,       \* per worker: its Task "Pending Proxy Validation"
    pc,         \* per worker: where the task's _run_task coroutine is
    start_time,     \* per worker: Task.run's local start_time
    execution_time, \* per worker: Task.run's local execution_time
    wake,       \* per worker: the time its asyncio.sleep ends
    cancelling, \* per worker: a CancelledError is propagating out of Task.run
    cache,      \* coordination cache: the hash task:stats:<name>, or NoStats
    clock,      \* the clock datetime.now() reads in the scheduler
    lock,       \* coordination cache: seconds the key scheduler:task_initialization
                \* has left to live, 0 when the key is absent
    shared,     \* per worker: the four shared tasks are registered in its Scheduler
    restarts,   \* number of process restarts so far
    persisted,  \* history: per worker, the task state its last cache update wrote
    faults,     \* history: per worker, store errors caught inside func
    active,     \* history: per worker, invocations of func in progress
    runs        \* history: per worker, the finished runs: start, end, tick served, next_run

VARIABLES
    pcv,        \* position of the validate_batch call: "idle", "gather", "returned"
    proxies,    \* the batch validate_batch was given
    check,      \* per proxy of the batch: "waiting" for the semaphore, "inflight", "done"
    semaphore,  \* free permits of the call's asyncio.Semaphore
    gathered,   \* per proxy: what asyncio.gather collected for it
    report,      \* the dictionary validate_batch returned
    outcome,    \* history: per proxy, what its request met
    classified  \* history: the last call of _detect_anonymity, arguments and result

storeVars == <<rows, nextId, now, batch, results, issued, calls, overlapped, tried, raced>>

schedVars == <<running, task, pc, start_time, execution_time, wake, cancelling, cache, clock,
               lock, shared, restarts, persisted, faults, active, runs>>

VARIABLES
    crawl_pc,       \* position of crawl_task: "idle", "merging"
    crawl_results,  \* what run_all returned, one entry per spider
    to_merge,       \* the entries the loop of crawl_task has still to look at
    spider_runs,    \* history: per spider, how its run ended in the last crawl
    store_faults    \* history: lists of the last crawl whose executemany failed

crawlVars == <<crawl_pc, crawl_results, to_merge, spider_runs, store_faults>>

batchVars == <<pcv, proxies, check, semaphore, gathered, report, outcome, classified>>

VARIABLES
    _session,       \* validator_service._session: 0 for None, else the id of an AsyncSession
    created,        \* how many AsyncSession objects were made
    closed,         \* the ids of the AsyncSession objects that were closed
    exec_pc,        \* per validation task of one worker: "idle", "validating", "closing"
    requests        \* per validation task: per proxy of its batch, where its request is

sessVars == <<_session, created, closed, exec_pc, requests>>

VARIABLES
    picked          \* history: the ids of the batch of the latest atomic Pending-Revalidation

rotVars == <<picked>>

VARIABLES
    client,         \* per worker: redis_client.client is a connection (not None)
    stopped         \* history, per worker: Scheduler.stop has returned in this process

connVars == <<client, stopped>>

valVars == <<batchVars, crawlVars, sessVars, rotVars, connVars>>

vars == <<storeVars, schedVars, valVars>>

----------------------------------------------------------------------------
(* Bounds of the model *)

MaxTime == 1        \* the clock runs 0..MaxTime
MaxId == 2          \* the id sequence stops at MaxId: at most MaxId inserts
MaxBatch == 2       \* longest add_batch argument
MaxCalls == 3       \* verdicts the validator hands out in one behaviour
MaxClock == 4       \* the scheduler's clock runs 0..MaxClock
MaxRestarts == 1    \* process restarts in one behaviour
LockTTL == 2        \* life of the key scheduler:task_initialization (300 s), in ticks
StatsTTL == 3       \* life of the hash task:stats:<name> (24 h), in ticks
MaxProxies == 2     \* proxies in one batch given to validate_batch
MaxHeaders == 2     \* header fields in one response given to _detect_anonymity
MaxRaw == 1         \* entries one spider reads from its source in one run
MaxSessions == 3    \* AsyncSession objects made in one behaviour
MaxSuccess == 1     \* success_count is followed up to MaxSuccess in the rotation

----------------------------------------------------------------------------
(* Values *)

\* SQL NULL / Python None for the numeric and timestamp columns
NULL == -1
\* SQL NULL / Python None for the text columns
NONE == "None"

\* ProxyStatus (scylla/models/proxy.py)
SUCCESS == 1
FAILED == 2
PENDING == 0

Workers == {"w1", "w2"}

Max(a, b) == IF a >= b THEN a ELSE b
Min(a, b) == IF a <= b THEN a ELSE b

\* settings.max_fail_count and settings.validate_batch_limit
max_fail_count == 3
validate_batch_limit == 2
\* the default limit of get_successful_proxies_for_validation
success_limit == 2

\* What the spiders hand to add_batch: Proxy objects built by create_proxy_data,
\* whose status is the model's default, PENDING.
Keys == { [ip |-> "10.0.0.1", port |-> 8080, protocol |-> "http"],
          [ip |-> "10.0.0.2", port |-> 3128, protocol |-> "socks5"] }
Candidates ==
    { [ip |-> k.ip, port |-> k.port, protocol |-> k.protocol,
       country |-> sc[2], source |-> sc[1], status |-> PENDING] :
         k \in Keys, sc \in {<<"srcA", "US">>, <<"srcB", NONE>>} }

KeyOf(r) == [ip |-> r.ip, port |-> r.port, protocol |-> r.protocol]

\* round(response_time, 2): seconds to two decimals, here ms to a multiple of 10
Round2(ms) ==
    IF ms = NULL THEN NULL
    ELSE LET q == ms \div 10
             rem == ms % 10
         IN  IF rem > 5 \/ (rem = 5 /\ q % 2 = 1) THEN (q + 1) * 10 ELSE q * 10

----------------------------------------------------------------------------
(* The proxies table (CREATE_PROXY_TABLE) and the ProxyService statements *)

\* The row INSERT INTO proxies (ip, port, protocol, country, source, status)
\* creates: the other columns take their defaults.
NewRow(p, t) ==
    [ip |-> p.ip, port |-> p.port, protocol |-> p.protocol,
     country |-> p.country, anonymity |-> NONE, source |-> p.source,
     speed |-> NULL, success_count |-> 0, fail_count |-> 0,
     status |-> p.status, last_checked |-> NULL, last_success |-> NULL,
     created_at |-> t, updated_at |-> t]

\* UNIQUE(ip, port, protocol): does the insert of p conflict with a row of tbl?
Conflicts(tbl, p) == \E i \in DOMAIN tbl : KeyOf(tbl[i]) = KeyOf(p)

\* Mutant: ON CONFLICT ... DO UPDATE SET source, country (the last insert wins)
InsertOnConflictDoUpdate(tbl, id, p, t) ==
    IF Conflicts(tbl, p)
    THEN [i \in DOMAIN tbl |->
            IF KeyOf(tbl[i]) = KeyOf(p)
            THEN [tbl[i] EXCEPT !.source = p.source, !.country = p.country]
            ELSE tbl[i]]
    ELSE tbl @@ (id :> NewRow(p, t))

\* INSERT ... ON CONFLICT (ip, port, protocol) DO NOTHING, on table tbl at time t
\* with the sequence at id: the table afterwards.
InsertOnConflictDoNothing(tbl, id, p, t) ==
    IF Conflicts(tbl, p) THEN tbl ELSE tbl @@ (id :> NewRow(p, t))

\* The UPDATE as written, for the mutants below to vary one column of
SetClause(r, is_success, response_time, anonymity, t) ==
    [r EXCEPT
       !.success_count = IF is_success THEN r.success_count + 1 ELSE 0,
       !.fail_count = IF is_success THEN Max(r.fail_count - 1, 0)
                                    ELSE r.fail_count + 1,
       !.last_checked = t,
       !.last_success = IF is_success THEN t ELSE r.last_success,
       !.speed = IF is_success THEN response_time ELSE r.speed,
       !.anonymity = IF is_success THEN anonymity ELSE r.anonymity,
       !.status = IF is_success THEN SUCCESS ELSE FAILED,
       !.updated_at = t]

\* Mutant: a success leaves fail_count as it was
UpdateVerdict_KeepFail(r, is_success, response_time, anonymity, t) ==
    [SetClause(r, is_success, response_time, anonymity, t) EXCEPT
       !.fail_count = IF is_success THEN r.fail_count ELSE r.fail_count + 1]

\* Mutant: speed and anonymity are written on every verdict
UpdateVerdict_AlwaysWrite(r, is_success, response_time, anonymity, t) ==
    [SetClause(r, is_success, response_time, anonymity, t) EXCEPT
       !.speed = response_time, !.anonymity = anonymity]

\* Mutant: a success resets fail_count to 0
UpdateVerdict_ResetFail(r, is_success, response_time, anonymity, t) ==
    [SetClause(r, is_success, response_time, anonymity, t) EXCEPT
       !.fail_count = IF is_success THEN 0 ELSE r.fail_count + 1]

\* Mutant: a success sets success_count to 1 instead of adding 1
UpdateVerdict_SetCount(r, is_success, response_time, anonymity, t) ==
    [SetClause(r, is_success, response_time, anonymity, t) EXCEPT
       !.success_count = IF is_success THEN 1 ELSE 0]

\* Mutant: a failure sets fail_count to 1 instead of adding 1 (the counter
\* written is not read from the row the statement updates)
UpdateVerdict_LostFail(r, is_success, response_time, anonymity, t) ==
    [SetClause(r, is_success, response_time, anonymity, t) EXCEPT
       !.fail_count = IF is_success THEN Max(r.fail_count - 1, 0) ELSE 1]

\* Mutant: the status column is not written
UpdateVerdict_KeepStatus(r, is_success, response_time, anonymity, t) ==
    [SetClause(r, is_success, response_time, anonymity, t) EXCEPT
       !.status = r.status]

\* The SET clause of record_validation_result's UPDATE applied to row r at time t.
UpdateVerdict(r, is_success, response_time, anonymity, t) ==
    [r EXCEPT
       !.success_count = IF is_success THEN r.success_count + 1 ELSE 0,
       !.fail_count = IF is_success THEN Max(r.fail_count - 1, 0)
                                    ELSE r.fail_count + 1,
       !.last_checked = t,
       !.last_success = IF is_success THEN t ELSE r.last_success,
       !.speed = IF is_success THEN response_time ELSE r.speed,
       !.anonymity = IF is_success THEN anonymity ELSE r.anonymity,
       !.status = IF is_success THEN SUCCESS ELSE FAILED,
       !.updated_at = t]

\* record_validation_result: rounds the response time, then one UPDATE ... WHERE id.
record_validation_result(tbl, proxy_id, is_success, response_time, anonymity, t) ==
    IF proxy_id \in DOMAIN tbl
    THEN [tbl EXCEPT ![proxy_id] =
             UpdateVerdict(tbl[proxy_id], is_success, Round2(response_time),
                           anonymity, t)]
    ELSE tbl

\* Sequences over S without repetition, of length n
DistinctSeqs(S, n) ==
    { s \in [1..n -> S] : \A i, j \in 1..n : i # j => s[i] # s[j] }

\* Mutant: ORDER BY last_checked DESC NULLS FIRST
OrderByLastCheckedLimit_Desc(tbl, E, limit) ==
    LET n == Min(limit, Cardinality(E))
    IN  { s \in DistinctSeqs(E, n) :
            /\ \A i, j \in 1..n :
                 i < j => (tbl[s[i]].last_checked = NULL
                           \/ (tbl[s[j]].last_checked # NULL
                               /\ tbl[s[i]].last_checked >= tbl[s[j]].last_checked))
            /\ \A i \in 1..n : \A e \in E \ { s[k] : k \in 1..n } :
                 tbl[s[i]].last_checked = NULL
                 \/ (tbl[e].last_checked # NULL
                     /\ tbl[s[i]].last_checked >= tbl[e].last_checked) }

\* ORDER BY last_checked ASC NULLS FIRST LIMIT limit over the ids in E: every
\* answer the backend may give (rows with equal last_checked come in any order).
\* NULL is below every timestamp, so ascending order puts it first.
OrderByLastCheckedLimit(tbl, E, limit) ==
    LET n == Min(limit, Cardinality(E))
    IN  { s \in DistinctSeqs(E, n) :
            /\ \A i, j \in 1..n :
                 i < j => tbl[s[i]].last_checked <= tbl[s[j]].last_checked
            /\ \A i \in 1..n : \A e \in E \ { s[k] : k \in 1..n } :
                 tbl[s[i]].last_checked <= tbl[e].last_checked }

\* Mutant: a row at the threshold is still selected
get_proxies_needing_validation_Upto(tbl, limit, max_fail) ==
    OrderByLastCheckedLimit(tbl,
        { i \in DOMAIN tbl : /\ tbl[i].fail_count <= max_fail
                             /\ tbl[i].status \in {PENDING, FAILED} },
        limit)

\* get_proxies_needing_validation(limit, max_fail_count): the possible answers
get_proxies_needing_validation(tbl, limit, max_fail) ==
    OrderByLastCheckedLimit(tbl,
        { i \in DOMAIN tbl : /\ tbl[i].fail_count < max_fail
                             /\ tbl[i].status \in {PENDING, FAILED} },
        limit)

\* get_successful_proxies_for_validation(limit): the possible answers
get_successful_proxies_for_validation(tbl, limit) ==
    OrderByLastCheckedLimit(tbl,
        { i \in DOMAIN tbl : tbl[i].status = SUCCESS }, limit)

\* str.lower and str.upper on the texts the model uses
lower(s) ==
    CASE s = "HTTP" -> "http"
      [] s = "Elite" -> "elite"
      [] s = "US" -> "us"
      [] s = "DE" -> "de"
      [] s = "X-Forwarded-For" -> "x-forwarded-for"
      [] s = "Via" -> "via"
      [] s = "VIA" -> "via"
      [] s = "X-Client-Ip" -> "x-client-ip"
      [] s = "Server" -> "server"
      [] s = "2001:DB8::5" -> "2001:db8::5"
      [] s = "SOCKS5" -> "socks5"
      [] OTHER -> s
upper(s) ==
    CASE s = "us" -> "US"
      [] s = "de" -> "DE"
      [] s = "http" -> "HTTP"
      [] s = "elite" -> "ELITE"
      [] OTHER -> s

\* "if protocol:" and the like: None and the empty text add no condition
Supplied(x) == x # NONE /\ x # ""

\* ORDER BY last_success DESC, success_count DESC: may row a come before row b?
\* In descending order NULL comes first.
OrderedDesc(a, b) ==
    \/ a.last_success = NULL /\ b.last_success # NULL
    \/ /\ a.last_success # NULL /\ b.last_success # NULL
       /\ a.last_success > b.last_success
    \/ /\ a.last_success = b.last_success
       /\ a.success_count >= b.success_count

\* the rows of tbl the WHERE clause of get_active_proxies selects
ActiveWhere(tbl, protocol, country, anonymity) ==
    { i \in DOMAIN tbl :
        /\ tbl[i].status = SUCCESS
        /\ Supplied(protocol) => tbl[i].protocol = lower(protocol)
        /\ Supplied(country) => tbl[i].country = upper(country)
        /\ Supplied(anonymity) => tbl[i].anonymity = lower(anonymity) }

\* Mutant: the status condition is left out
get_active_proxies_AnyStatus(tbl, protocol, country, anonymity, limit) ==
    LET E == { i \in DOMAIN tbl :
                /\ Supplied(protocol) => tbl[i].protocol = lower(protocol)
                /\ Supplied(country) => tbl[i].country = upper(country)
                /\ Supplied(anonymity) => tbl[i].anonymity = lower(anonymity) }
        n == Min(limit, Cardinality(E))
    IN  { s \in DistinctSeqs(E, n) :
            /\ \A i, j \in 1..n : i < j => OrderedDesc(tbl[s[i]], tbl[s[j]])
            /\ \A i \in 1..n : \A e \in E \ { s[k] : k \in 1..n } :
                 OrderedDesc(tbl[s[i]], tbl[e]) }

\* get_active_proxies(protocol, country, anonymity, limit): the possible answers
\* (rows that tie on both columns come in any order)
get_active_proxies(tbl, protocol, country, anonymity, limit) ==
    LET E == ActiveWhere(tbl, protocol, country, anonymity)
        n == Min(limit, Cardinality(E))
    IN  { s \in DistinctSeqs(E, n) :
            /\ \A i, j \in 1..n : i < j => OrderedDesc(tbl[s[i]], tbl[s[j]])
            /\ \A i \in 1..n : \A e \in E \ { s[k] : k \in 1..n } :
                 OrderedDesc(tbl[s[i]], tbl[e]) }

\* db.execute of a DELETE returns the status "DELETE n", n the rows removed;
\* int(result.split()[-1]) reads n back. The words of the status are a sequence.
DeleteStatus(n) == <<"DELETE", <<"int", n>>>>
DeletedCount(result) == result[Len(result)][2]

\* Mutant: the threshold itself is spared
cleanup_failed_proxies_Above(tbl, max_failures) ==
    LET gone == { i \in DOMAIN tbl :
                    tbl[i].status = FAILED /\ tbl[i].fail_count > max_failures }
    IN  [i \in DOMAIN tbl \ gone |-> tbl[i]]

\* DELETE FROM proxies WHERE status = FAILED AND fail_count >= max_failures
cleanup_failed_proxies(tbl, max_failures) ==
    LET gone == { i \in DOMAIN tbl :
                    tbl[i].status = FAILED /\ tbl[i].fail_count >= max_failures }
    IN  [i \in DOMAIN tbl \ gone |-> tbl[i]]

\* cleanup_failed_proxies(max_failures): the number it returns
cleanup_failed_proxies_result(tbl, max_failures) ==
    DeletedCount(DeleteStatus(
        Cardinality(DOMAIN tbl) -
        Cardinality(DOMAIN cleanup_failed_proxies(tbl, max_failures))))

\* Mutant: the rows that never succeeded are kept
cleanup_stale_proxies_NoNull(tbl, days, t) ==
    LET cutoff == t - days
        gone == { i \in DOMAIN tbl :
                    tbl[i].last_success # NULL /\ tbl[i].last_success < cutoff }
    IN  [i \in DOMAIN tbl \ gone |-> tbl[i]]

\* DELETE FROM proxies WHERE last_success < cutoff
\*                        OR (last_success IS NULL AND created_at < cutoff)
\* with cutoff = now - days; a comparison with NULL is not true.
cleanup_stale_proxies(tbl, days, t) ==
    LET cutoff == t - days
        gone == { i \in DOMAIN tbl :
                    \/ tbl[i].last_success # NULL /\ tbl[i].last_success < cutoff
                    \/ tbl[i].last_success = NULL /\ tbl[i].created_at < cutoff }
    IN  [i \in DOMAIN tbl \ gone |-> tbl[i]]

\* get_proxies_without_country: ids of SUCCESS rows with no country
get_proxies_without_country(tbl) ==
    { i \in DOMAIN tbl : tbl[i].country = NONE /\ tbl[i].status = SUCCESS }

\* batch_update_countries(updates): UPDATE ... SET country, updated_at = NOW()
\* for every id of updates (a function id -> country) that is in the table
batch_update_countries(tbl, updates, t) ==
    [i \in DOMAIN tbl |->
        IF i \in DOMAIN updates
        THEN [tbl[i] EXCEPT !.country = updates[i], !.updated_at = t]
        ELSE tbl[i]]

----------------------------------------------------------------------------
(* Operations on the store *)

\* What validate_proxy can return for one proxy: failure with no measurements,
\* or success with the measured time and the detected anonymity level.
Outcomes ==
    { [is_success |-> FALSE, response_time |-> NULL, anonymity |-> NONE],
      [is_success |-> TRUE, response_time |-> 374, anonymity |-> "elite"],
      [is_success |-> TRUE, response_time |-> 1236, anonymity |-> "transparent"] }

\* inserts of add_batch calls under way that are still to be executed
TotalPending == LET S == { <<q, i>> : q \in Workers, i \in 1..MaxId }
                IN  Cardinality({ x \in S : x[2] <= Len(batch[x[1]]) })

HoldsInsertFor(q, k) ==
    \E i \in 1..Len(batch[q]) : KeyOf(batch[q][i]) = k

HoldsVerdictFor(q, id) ==
    \E i \in 1..Len(results[q]) : results[q][i].proxy_id = id

\* history bookkeeping of a statement that takes the table from tbl to tbl2
TriedAfter(tbl2, tr) ==
    [k \in Keys |-> IF \E i \in DOMAIN tbl2 : KeyOf(tbl2[i]) = k
                    THEN tr[k] ELSE <<>>]

Tick ==
    /\ now < MaxTime
    /\ now' = now + 1
    /\ UNCHANGED <<rows, nextId, batch, results, issued, calls, overlapped, tried, raced>>
    /\ UNCHANGED <<schedVars, valVars>>

\* add_proxy(proxy): one INSERT ... ON CONFLICT DO NOTHING RETURNING id
add_proxy(p) ==
    /\ nextId + TotalPending <= MaxId
    /\ rows' = InsertOnConflictDoNothing(rows, nextId, p, now)
    /\ nextId' = nextId + 1
    /\ tried' = [tried EXCEPT ![KeyOf(p)] = Append(@, p)]
    /\ UNCHANGED <<now, batch, results, issued, calls, overlapped, raced>>
    /\ UNCHANGED <<schedVars, valVars>>

\* add_batch(proxies), up to the executemany: the batch data is prepared
AddBatchBegin(w, ps) ==
    /\ batch[w] = <<>>
    /\ ps # <<>>
    /\ nextId + TotalPending + Len(ps) <= MaxId + 1
    /\ batch' = [batch EXCEPT ![w] = ps]
    /\ UNCHANGED <<rows, nextId, now, results, issued, calls, overlapped, tried, raced>>
    /\ UNCHANGED <<schedVars, valVars>>

\* add_batch, one statement of the executemany: the next candidate is inserted
AddBatchStep(w) ==
    /\ batch[w] # <<>>
    /\ LET p == Head(batch[w])
       IN  /\ rows' = InsertOnConflictDoNothing(rows, nextId, p, now)
           /\ tried' = [tried EXCEPT ![KeyOf(p)] = Append(@, p)]
           /\ raced' = IF \E q \in Workers \ {w} : HoldsInsertFor(q, KeyOf(p))
                       THEN raced \cup {KeyOf(p)} ELSE raced
    /\ nextId' = nextId + 1
    /\ batch' = [batch EXCEPT ![w] = Tail(@)]
    /\ UNCHANGED <<now, results, issued, calls, overlapped>>
    /\ UNCHANGED <<schedVars, valVars>>

\* execute_validation up to the recording loop: the proxies are read from the
\* iterator and validate_batch returns one verdict per proxy, in input order.
ValidateBegin(w, picks) ==
    /\ results[w] = <<>>
    /\ \E s \in picks :
         /\ s # <<>>
         /\ issued + Len(s) <= MaxCalls
         /\ \E outs \in [1..Len(s) -> Outcomes] :
              results' = [results EXCEPT ![w] =
                  [i \in 1..Len(s) |->
                      [proxy_id |-> s[i], is_success |-> outs[i].is_success,
                       response_time |-> outs[i].response_time,
                       anonymity |-> outs[i].anonymity]]]
         /\ issued' = issued + Len(s)
    /\ UNCHANGED <<rows, nextId, now, batch, calls, overlapped, tried, raced>>
    /\ UNCHANGED <<schedVars, valVars>>

\* validate_pending_task
validate_pending_task(w) ==
    ValidateBegin(w, get_proxies_needing_validation(rows, validate_batch_limit,
                                                    max_fail_count))

\* validate_success_task: the query is called with its default limit
validate_success_task(w) ==
    ValidateBegin(w, get_successful_proxies_for_validation(rows, success_limit))

\* execute_validation, one turn of the recording loop
RecordStep(w) ==
    /\ results[w] # <<>>
    /\ LET v == Head(results[w])
           id == v.proxy_id
       IN  /\ rows' = record_validation_result(rows, id, v.is_success,
                                               v.response_time, v.anonymity, now)
           /\ calls' = IF id \in DOMAIN rows
                       THEN [calls EXCEPT ![id] = Append(@,
                               [is_success |-> v.is_success,
                                response_time |-> v.response_time,
                                anonymity |-> v.anonymity, t |-> now])]
                       ELSE calls
           /\ overlapped' =
                IF id \in DOMAIN rows /\ \E q \in Workers \ {w} : HoldsVerdictFor(q, id)
                THEN overlapped \cup {id} ELSE overlapped
    /\ results' = [results EXCEPT ![w] = Tail(@)]
    /\ UNCHANGED <<nextId, now, batch, issued, tried, raced>>
    /\ UNCHANGED <<schedVars, valVars>>

\* cleanup_failed_proxies(max_failures)
CleanupFailed(max_failures) ==
    /\ rows' = cleanup_failed_proxies(rows, max_failures)
    /\ tried' = TriedAfter(rows', tried)
    /\ UNCHANGED <<nextId, now, batch, results, issued, calls, overlapped, raced>>
    /\ UNCHANGED <<schedVars, valVars>>

\* cleanup_stale_proxies(days)
CleanupStale(days) ==
    /\ rows' = cleanup_stale_proxies(rows, days, now)
    /\ tried' = TriedAfter(rows', tried)
    /\ UNCHANGED <<nextId, now, batch, results, issued, calls, overlapped, raced>>
    /\ UNCHANGED <<schedVars, valVars>>

\* the table after cleanup_task at time t: both thresholds are literals of the
\* task, settings.max_fail_count is not read
cleanup_task_rows(tbl, t) ==
    cleanup_stale_proxies(cleanup_failed_proxies(tbl, 3), 7, t)

\* cleanup_task
cleanup_task ==
    /\ rows' = cleanup_task_rows(rows, now)
    /\ tried' = TriedAfter(rows', tried)
    /\ UNCHANGED <<nextId, now, batch, results, issued, calls, overlapped, raced>>
    /\ UNCHANGED <<schedVars, valVars>>

\* validate_pending_task in a deployment whose settings.max_fail_count is setting
validate_pending_task_with(w, setting) ==
    ValidateBegin(w, get_proxies_needing_validation(rows, validate_batch_limit,
                                                    setting))

\* update_country_task: looks up the rows without a country and writes the
\* countries found with batch_update_countries
UpdateCountry(updates) ==
    /\ DOMAIN updates # {}
    /\ DOMAIN updates \subseteq get_proxies_without_country(rows)
    /\ rows' = batch_update_countries(rows, updates, now)
    /\ UNCHANGED <<nextId, now, batch, results, issued, calls, overlapped, tried, raced>>
    /\ UNCHANGED <<schedVars, valVars>>

----------------------------------------------------------------------------
(* The scheduler: Task.run and the task loop Scheduler._run_task *)

Last(q) == q[Len(q)]

\* settings.validate_interval values the model runs with (seconds)
Intervals == {1, 2}

\* No hash stored under task:stats:<name>
NoStats == [present |-> FALSE]

\* Scheduler.__init__: no task is registered
NoTask == [present |-> FALSE]

\* Task.__init__
NewTask(iv) ==
    [interval |-> iv, last_run |-> NULL, next_run |-> NULL, is_running |-> FALSE,
     execution_count |-> 0, failure_count |-> 0]

\* Task.run, the try body after func returned: last_run is the start time
AfterReturn(t, start) ==
    [t EXCEPT !.last_run = start, !.execution_count = t.execution_count + 1]

\* Mutant: a failed run is counted as an execution too
AfterException_Counted(t) ==
    [t EXCEPT !.failure_count = t.failure_count + 1,
              !.execution_count = t.execution_count + 1]

\* Task.run, the except Exception branch
AfterException(t) ==
    [t EXCEPT !.failure_count = t.failure_count + 1]

\* Mutant: next_run is counted from the completion time
Finally_FromCompletion(t, start, t_end) ==
    [t EXCEPT !.is_running = FALSE, !.next_run = t_end + t.interval]

\* Mutant: is_running is not reset
Finally_NoReset(t, start, t_end) ==
    [t EXCEPT !.next_run = IF t.next_run # NULL THEN t.next_run + t.interval
                                                 ELSE start + t.interval]

\* Task.run, the finally block up to the cache update: is_running is cleared and
\* next_run advanced by interval from the previous next_run, or seeded from the
\* start time. (t_end, the time func ended, is not read.)
Finally(t, start, t_end) ==
    [t EXCEPT !.is_running = FALSE,
              !.next_run = IF t.next_run # NULL THEN t.next_run + t.interval
                                                 ELSE start + t.interval]

\* datetime.isoformat and datetime.fromisoformat, str and int: a string is
\* modelled by the sequence of its parts, the empty string by <<>>
isoformat(t) == <<"iso", t>>
fromisoformat(x) == x[2]
str(n) == <<"int", n>>
int(x) == x[2]

\* update_task_info_batch: the hash it writes, with its time to live
StatsOf(t, elapsed) ==
    [present |-> TRUE,
     last_run |-> IF t.last_run # NULL THEN isoformat(t.last_run) ELSE <<>>,
     next_run |-> isoformat(t.next_run),
     execution_count |-> str(t.execution_count),
     failure_count |-> str(t.failure_count),
     execution_time |-> <<"2f", elapsed>>,
     ttl |-> StatsTTL]

\* get_task_stats: the dictionary read back from the hash, or none
get_task_stats(c) ==
    IF c.present
    THEN [present |-> TRUE,
          execution_count |-> int(c.execution_count),
          failure_count |-> int(c.failure_count),
          last_run |-> IF c.last_run # <<>> THEN fromisoformat(c.last_run) ELSE NULL,
          next_run |-> IF c.next_run # <<>> THEN fromisoformat(c.next_run) ELSE NULL]
    ELSE [present |-> FALSE]

\* history: the task state a cache update has written
PlainStats(t) ==
    [present |-> TRUE, last_run |-> t.last_run, next_run |-> t.next_run,
     execution_count |-> t.execution_count, failure_count |-> t.failure_count]

\* Mutant: the counters are restored, the schedule is not
Restored_NoSchedule(t, stats) ==
    IF stats.present
    THEN [t EXCEPT !.execution_count = stats.execution_count,
                   !.failure_count = stats.failure_count,
                   !.last_run = stats.last_run]
    ELSE t

\* Scheduler.initialize, the loop over the tasks: the schedule and the counters
\* are taken from the stored hash when there is one
Restored(t, stats) ==
    IF stats.present
    THEN [t EXCEPT !.next_run = stats.next_run,
                   !.execution_count = stats.execution_count,
                   !.failure_count = stats.failure_count,
                   !.last_run = stats.last_run]
    ELSE t


\* history: the run of worker w that ends now
RunEnds(w) ==
    runs' = [runs EXCEPT ![w] = Append(@,
                [start |-> start_time[w], end |-> clock,
                 tick |-> task[w].next_run, next |-> task'[w].next_run])]

\* Task.run from its first line to the await of func: a call made while the task
\* is running logs and returns (back to the loop), otherwise func is started.
TaskRunBegin(w) ==
    IF task[w].is_running
    THEN /\ pc' = [pc EXCEPT ![w] = "loop"]
         /\ UNCHANGED <<task, start_time, active>>
    ELSE /\ task' = [task EXCEPT ![w].is_running = TRUE]
         /\ start_time' = [start_time EXCEPT ![w] = clock]
         /\ active' = [active EXCEPT ![w] = @ + 1]
         /\ pc' = [pc EXCEPT ![w] = "func"]

\* a worker whose initialize has completed: its task is registered
Initialized(w) == pc[w] \notin {"new", "crashed", "store_down"}

\* Mutant: the key is set without NX, every worker obtains it
AcquireLock_Always(l) == TRUE

\* redis_client.client.set(lock_key, 1, ex=300, nx=True): true when the key was
\* absent
AcquireLock(l) == l = 0

\* Scheduler.initialize. With the cache reachable: SET NX EX on the key
\* scheduler:task_initialization decides whether the four shared tasks are
\* registered, the pending-validation task is registered with
\* settings.validate_interval, and the task state is restored from the cache.
\* With the cache unreachable redis_client.connect leaves client = None and
\* _initialize_tasks raises on redis_client.client.set: initialize does not
\* complete and no task is registered.
Initialize(w, iv, reachable) ==
    /\ pc[w] = "new"
    /\ IF reachable
       THEN /\ lock' = IF AcquireLock(lock) THEN LockTTL ELSE lock
            /\ shared' = [shared EXCEPT ![w] = AcquireLock(lock)]
            /\ task' = [task EXCEPT ![w] = Restored(NewTask(iv), get_task_stats(cache))]
            /\ pc' = [pc EXCEPT ![w] = "idle"]
       ELSE /\ pc' = [pc EXCEPT ![w] = "crashed"]
            /\ UNCHANGED <<lock, shared, task>>
    /\ UNCHANGED <<running, start_time, execution_time, wake, cancelling, cache, clock,
                   restarts, persisted, faults, active, runs>>
    /\ client' = [client EXCEPT ![w] = reachable]
    /\ UNCHANGED stopped
    /\ UNCHANGED <<storeVars, batchVars, crawlVars, sessVars, rotVars>>

\* Mutant: the tasks are initialized before the store is connected
InitializeStoreDown_TasksFirst(w) ==
    /\ pc[w] = "new"
    /\ lock' = IF AcquireLock(lock) THEN LockTTL ELSE lock
    /\ shared' = [shared EXCEPT ![w] = AcquireLock(lock)]
    /\ pc' = [pc EXCEPT ![w] = "store_down"]
    /\ UNCHANGED <<task, running, start_time, execution_time, wake, cancelling, cache,
                   clock, restarts, persisted, faults, active, runs>>
    /\ UNCHANGED <<storeVars, valVars>>

\* Scheduler.initialize when the store cannot be reached: db.connect logs and
\* raises again, before redis_client.connect and _initialize_tasks are called
InitializeStoreDown(w) ==
    /\ pc[w] = "new"
    /\ pc' = [pc EXCEPT ![w] = "store_down"]
    /\ UNCHANGED <<lock, shared, task, running, start_time, execution_time, wake,
                   cancelling, cache, clock, restarts, persisted, faults, active, runs>>
    /\ UNCHANGED <<storeVars, valVars>>

\* The worker process ends and is started again: a new Scheduler, no task
Restart(w) ==
    /\ pc[w] # "new"
    /\ restarts < MaxRestarts
    /\ restarts' = restarts + 1
    /\ running' = [running EXCEPT ![w] = FALSE]
    /\ task' = [task EXCEPT ![w] = NoTask]
    /\ pc' = [pc EXCEPT ![w] = "new"]
    /\ start_time' = [start_time EXCEPT ![w] = NULL]
    /\ execution_time' = [execution_time EXCEPT ![w] = 0]
    /\ wake' = [wake EXCEPT ![w] = NULL]
    /\ cancelling' = [cancelling EXCEPT ![w] = FALSE]
    /\ shared' = [shared EXCEPT ![w] = FALSE]
    /\ active' = [active EXCEPT ![w] = 0]
    /\ runs' = [runs EXCEPT ![w] = <<>>]
    /\ UNCHANGED <<cache, clock, lock, persisted, faults>>
    /\ client' = [client EXCEPT ![w] = FALSE]
    /\ stopped' = [stopped EXCEPT ![w] = FALSE]
    /\ UNCHANGED <<storeVars, batchVars, crawlVars, sessVars, rotVars>>


\* Scheduler.start: running is set and the task's loop is created
Start(w) ==
    /\ pc[w] = "idle"
    /\ running' = [running EXCEPT ![w] = TRUE]
    /\ pc' = [pc EXCEPT ![w] = "loop"]
    /\ UNCHANGED <<task, start_time, execution_time, wake, cancelling, cache, clock,
                   active, runs>>
    /\ UNCHANGED <<lock, shared, restarts, persisted, faults>>
    /\ UNCHANGED <<storeVars, valVars>>

\* Mutant: the distance to next_run is taken without its sign
wait_seconds_Abs(t, t_now) ==
    IF t.next_run >= t_now THEN t.next_run - t_now ELSE t_now - t.next_run

\* _run_task: wait_seconds = (task.next_run - now).total_seconds()
wait_seconds(t, t_now) == t.next_run - t_now

\* _run_task, one turn of the while loop up to its first await: leave when
\* running is false, sleep when next_run is in the future, else run the task
LoopStep(w) ==
    /\ pc[w] = "loop"
    /\ IF ~running[w]
       THEN /\ pc' = [pc EXCEPT ![w] = "done"]
            /\ UNCHANGED <<task, start_time, wake, active>>
       ELSE IF task[w].next_run # NULL /\ wait_seconds(task[w], clock) > 0
       THEN /\ pc' = [pc EXCEPT ![w] = "sleep"]
            /\ wake' = [wake EXCEPT ![w] = task[w].next_run]
            /\ UNCHANGED <<task, start_time, active>>
       ELSE /\ TaskRunBegin(w)
            /\ UNCHANGED wake
    /\ UNCHANGED <<running, execution_time, cancelling, cache, clock, runs>>
    /\ UNCHANGED <<lock, shared, restarts, persisted, faults>>
    /\ UNCHANGED <<storeVars, valVars>>

\* Mutant: the sleep returns before its time
Wake_Early(w) ==
    /\ pc[w] = "sleep"
    /\ TaskRunBegin(w)
    /\ UNCHANGED <<running, execution_time, wake, cancelling, cache, clock, runs>>
    /\ UNCHANGED <<lock, shared, restarts, persisted, faults>>
    /\ UNCHANGED <<storeVars, valVars>>

\* _run_task: asyncio.sleep returns and the task is run
Wake(w) ==
    /\ pc[w] = "sleep"
    /\ clock >= wake[w]
    /\ TaskRunBegin(w)
    /\ UNCHANGED <<running, execution_time, wake, cancelling, cache, clock, runs>>
    /\ UNCHANGED <<lock, shared, restarts, persisted, faults>>
    /\ UNCHANGED <<storeVars, valVars>>

\* Task.run when the await of func ends without an exception
ReturnFrom(w, caught) ==
    /\ pc[w] = "func"
    /\ task' = [task EXCEPT ![w] = Finally(AfterReturn(@, start_time[w]),
                                           start_time[w], clock)]
    /\ active' = [active EXCEPT ![w] = @ - 1]
    /\ pc' = [pc EXCEPT ![w] = "persist"]
    /\ execution_time' = [execution_time EXCEPT ![w] = clock - start_time[w]]
    /\ RunEnds(w)
    /\ faults' = [faults EXCEPT ![w] = @ + caught]
    /\ UNCHANGED <<running, start_time, wake, cancelling, cache, clock>>
    /\ UNCHANGED <<lock, shared, restarts, persisted>>
    /\ UNCHANGED <<storeVars, valVars>>

\* Task.run: func returns
FuncReturn(w) == ReturnFrom(w, 0)

\* Task.run: a store statement raises inside func; the task function
\* (execute_validation, cleanup_task, crawl_task, update_country_task) catches
\* every Exception, logs it and returns
FuncStoreError(w) == ReturnFrom(w, 1)


\* Task.run: func raises an Exception
FuncRaise(w) ==
    /\ pc[w] = "func"
    /\ task' = [task EXCEPT ![w] = Finally(AfterException(@), start_time[w], clock)]
    /\ active' = [active EXCEPT ![w] = @ - 1]
    /\ pc' = [pc EXCEPT ![w] = "persist"]
    /\ execution_time' = [execution_time EXCEPT ![w] = clock - start_time[w]]
    /\ RunEnds(w)
    /\ UNCHANGED <<running, start_time, wake, cancelling, cache, clock>>
    /\ UNCHANGED <<lock, shared, restarts, persisted, faults>>
    /\ UNCHANGED <<storeVars, valVars>>

\* Task.run: the coroutine is cancelled while func is awaited; CancelledError is
\* no Exception, so only the finally block runs before it propagates
FuncCancelled(w) ==
    /\ pc[w] = "func"
    /\ task' = [task EXCEPT ![w] = Finally(@, start_time[w], clock)]
    /\ active' = [active EXCEPT ![w] = @ - 1]
    /\ cancelling' = [cancelling EXCEPT ![w] = TRUE]
    /\ pc' = [pc EXCEPT ![w] = "persist"]
    /\ execution_time' = [execution_time EXCEPT ![w] = 0]
    /\ RunEnds(w)
    /\ UNCHANGED <<running, start_time, wake, cache, clock>>
    /\ UNCHANGED <<lock, shared, restarts, persisted, faults>>
    /\ UNCHANGED <<storeVars, valVars>>

\* ensure_connected: a client whose ping fails is closed, and a missing client
\* is connected again; the client is there afterwards iff the cache answers
ensure_connected(reachable) == reachable

\* Task.run, the end of the finally block: update_task_info_batch writes the
\* hash, or returns without writing when the cache cannot be reached; then the
\* loop goes on, or ends if a CancelledError is propagating
Persist(w, reachable) ==
    /\ pc[w] = "persist"
    /\ cache' = IF reachable
                THEN StatsOf(task[w], execution_time[w])
                ELSE cache
    /\ persisted' = IF reachable
                    THEN [persisted EXCEPT ![w] = PlainStats(task[w])]
                    ELSE persisted
    /\ pc' = [pc EXCEPT ![w] = IF cancelling[w] THEN "done" ELSE "loop"]
    /\ UNCHANGED <<running, task, start_time, execution_time, wake, cancelling, clock,
                   lock, shared, restarts, faults, active, runs>>
    /\ client' = [client EXCEPT ![w] = ensure_connected(reachable)]
    /\ UNCHANGED stopped
    /\ UNCHANGED <<storeVars, batchVars, crawlVars, sessVars, rotVars>>


\* Mutant: the cancellation is swallowed and the loop goes on
CancelLoop_Swallowed(w) ==
    /\ pc[w] \in {"sleep", "persist"}
    /\ pc' = [pc EXCEPT ![w] = "loop"]
    /\ UNCHANGED <<running, task, start_time, execution_time, wake, cancelling, cache,
                   clock, active, runs>>
    /\ UNCHANGED <<lock, shared, restarts, persisted, faults>>
    /\ UNCHANGED <<storeVars, valVars>>

\* The coroutine is cancelled in asyncio.sleep, or in the cache update: the
\* CancelledError leaves the loop
CancelLoop(w) ==
    /\ pc[w] \in {"sleep", "persist"}
    /\ pc' = [pc EXCEPT ![w] = "done"]
    /\ UNCHANGED <<running, task, start_time, execution_time, wake, cancelling, cache,
                   clock, active, runs>>
    /\ UNCHANGED <<lock, shared, restarts, persisted, faults>>
    /\ UNCHANGED <<storeVars, valVars>>

\* Scheduler.stop: running = False, db.close(), redis_client.close()
Stop(w) ==
    /\ running[w]
    /\ running' = [running EXCEPT ![w] = FALSE]
    /\ UNCHANGED <<task, pc, start_time, execution_time, wake, cancelling, cache, clock,
                   active, runs>>
    /\ UNCHANGED <<lock, shared, restarts, persisted, faults>>
    /\ client' = [client EXCEPT ![w] = FALSE]
    /\ stopped' = [stopped EXCEPT ![w] = TRUE]
    /\ UNCHANGED <<storeVars, batchVars, crawlVars, sessVars, rotVars>>

\* Time passes: the keys of the cache come one second nearer to their expiry
ClockTick ==
    /\ clock < MaxClock
    /\ clock' = clock + 1
    /\ lock' = IF lock > 0 THEN lock - 1 ELSE 0
    /\ cache' = IF cache.present
                THEN (IF cache.ttl > 1 THEN [cache EXCEPT !.ttl = @ - 1] ELSE NoStats)
                ELSE cache
    /\ UNCHANGED <<running, task, pc, start_time, execution_time, wake, cancelling,
                   shared, restarts, persisted, faults, active, runs>>
    /\ UNCHANGED <<storeVars, valVars>>


----------------------------------------------------------------------------
(* The validator: ValidatorService.validate_proxy, _detect_anonymity and
   validate_batch. A text is a sequence of pieces, <<>> the empty text, so that
   "a in b" is the search for a run of pieces. *)

\* settings.max_concurrent_validators the model runs with
max_concurrent == 1

\* rows of the store as validate_batch gets them: id and ip; ip is kept as given
BatchProxies ==
    { [id |-> 1, ip |-> <<"192.0.2.5">>],
      [id |-> 2, ip |-> <<"2001:DB8::5">>] }

\* the batches: stored rows, no row twice
Batches ==
    UNION { { b \in [1..n -> BatchProxies] :
                \A i, j \in 1..n : i # j => b[i] # b[j] } : n \in 0..MaxProxies }

\* str.lower of a text
LowerText(t) == [i \in DOMAIN t |-> lower(t[i])]

\* "a in b" on texts
Contains(a, b) ==
    \E k \in 0..(Len(b) - Len(a)) : \A i \in 1..Len(a) : b[k + i] = a[i]

\* str.title on the header names of the two lists
title(s) ==
    CASE s = "x-forwarded-for" -> "X-Forwarded-For"
      [] s = "x-real-ip" -> "X-Real-Ip"
      [] s = "client-ip" -> "Client-Ip"
      [] s = "forwarded" -> "Forwarded"
      [] s = "via" -> "Via"
      [] s = "x-proxy-id" -> "X-Proxy-Id"
      [] s = "x-proxy" -> "X-Proxy"
      [] s = "proxy-connection" -> "Proxy-Connection"
      [] s = "x-forwarded" -> "X-Forwarded"
      [] s = "forwarded-for" -> "Forwarded-For"
      [] OTHER -> s

\* The headers argument: the fields (name -> value) and whether the mapping
\* folds the case of names on lookup. The annotation says dict, which does not;
\* the object validate_proxy passes is response.headers, which does.
HeaderNames == {"X-Forwarded-For", "x-forwarded-for", "Via", "VIA", "X-Client-Ip", "Server"}
HeaderValues == { <<>>, <<"192.0.2.5">>, <<"203.0.113.9">>,
                  <<"for=", "2001:db8::5">> }
Headers ==
    { h \in [fields : UNION { [N -> HeaderValues] :
                                N \in { M \in SUBSET HeaderNames :
                                          Cardinality(M) <= MaxHeaders } },
             folds : BOOLEAN] :
        h.folds => \A a, b \in DOMAIN h.fields : lower(a) = lower(b) => a = b }

\* name in headers
HasHeader(h, name) ==
    IF h.folds THEN \E k \in DOMAIN h.fields : lower(k) = lower(name)
               ELSE name \in DOMAIN h.fields

\* headers.get(name): the value, None when there is none. Only the truth of the
\* result is used, and None and "" are both false: <<>> stands for both.
HeaderGet(h, name) ==
    IF HasHeader(h, name)
    THEN LET k == CHOOSE k \in DOMAIN h.fields :
                    IF h.folds THEN lower(k) = lower(name) ELSE k = name
         IN  h.fields[k]
    ELSE <<>>

\* headers.get(header_name) or headers.get(header_name.title())
HeaderValueOf(h, name) ==
    IF HeaderGet(h, name) # <<>> THEN HeaderGet(h, name)
                                 ELSE HeaderGet(h, title(name))

ip_exposure_headers == {"x-forwarded-for", "x-real-ip", "client-ip", "forwarded"}
proxy_indicator_headers ==
    {"via", "x-proxy-id", "x-proxy", "proxy-connection", "x-forwarded", "forwarded-for"}

\* _detect_anonymity(headers, proxy_ip)
_detect_anonymity(h, proxy_ip) ==
    IF \E header_name \in ip_exposure_headers :
         /\ HeaderValueOf(h, header_name) # <<>>
         /\ ~Contains(LowerText(proxy_ip), LowerText(HeaderValueOf(h, header_name)))
    THEN "transparent"
    ELSE IF \E header_name \in proxy_indicator_headers :
              HasHeader(h, header_name) \/ HasHeader(h, title(header_name))
         THEN "anonymous"
         ELSE "elite"

\* What the request of one check can meet: a response, asyncio.TimeoutError,
\* another Exception raised inside the try block, or the coroutine ending with
\* an exception validate_proxy does not catch: an Exception raised outside the
\* try block ("raise") or a BaseException such as CancelledError ("cancelled").
NoHeaders == [fields |-> <<>>, folds |-> TRUE]
BatchHeaders ==
    { NoHeaders,
      [fields |-> ("Via" :> <<"203.0.113.9">>), folds |-> TRUE],
      [fields |-> ("X-Forwarded-For" :> <<"203.0.113.9">>), folds |-> TRUE] }
StatusCodes == {200, 304, 500}
RequestOutcomes ==
    { [kind |-> "response", status_code |-> c, headers |-> h, elapsed |-> 374] :
        c \in StatusCodes, h \in BatchHeaders }
    \cup { [kind |-> k, status_code |-> 0, headers |-> NoHeaders, elapsed |-> 0] :
             k \in {"timeout", "error", "raise", "cancelled"} }

\* Response.ok of curl_cffi: the status code is in [200, 400)
ok(status_code) == 200 <= status_code /\ status_code < 400

\* a 4-tuple validate_proxy returns, and an exception gather collected
Verdict(proxy_id, success, speed, anonymity) ==
    [tuple |-> TRUE, proxy_id |-> proxy_id, success |-> success,
     speed |-> speed, anonymity |-> anonymity, exception |-> NONE]
Raised(exc) ==
    [tuple |-> FALSE, proxy_id |-> 0, success |-> FALSE,
     speed |-> NULL, anonymity |-> NONE, exception |-> exc]
NoResult == Raised("pending")

\* validate_proxy(proxy) when its request meets o, as gather collects it
validate_proxy(proxy, o) ==
    IF proxy.id = NULL \/ proxy.id = 0
    THEN Verdict(0, FALSE, NULL, NONE)
    ELSE CASE o.kind = "response" /\ ok(o.status_code) ->
                Verdict(proxy.id, TRUE, o.elapsed,
                        _detect_anonymity(o.headers, proxy.ip))
           [] o.kind = "response" /\ ~ok(o.status_code) ->
                Verdict(proxy.id, FALSE, NULL, NONE)
           [] o.kind = "timeout" -> Verdict(proxy.id, FALSE, NULL, NONE)
           [] o.kind = "error" -> Verdict(proxy.id, FALSE, NULL, NONE)
           [] o.kind = "raise" -> Raised("Exception")
           [] o.kind = "cancelled" -> Raised("CancelledError")

\* the loop over results of validate_batch: the tuples, in order
RECURSIVE validation_results(_)
validation_results(g) ==
    IF Len(g) = 0 THEN <<>>
    ELSE IF Head(g).tuple
         THEN <<Head(g)>> \o validation_results(Tail(g))
         ELSE validation_results(Tail(g))

\* the dictionary validate_batch returns for the collected results g
BatchStats(ps, g) ==
    [total |-> Len(ps),
     success |-> Cardinality({ i \in DOMAIN g : g[i].tuple /\ g[i].success }),
     failed |-> Cardinality({ i \in DOMAIN g :
                    \/ ~g[i].tuple /\ g[i].exception = "Exception"
                    \/ g[i].tuple /\ ~g[i].success }),
     results |-> validation_results(g)]

NoStatsYet == [total |-> 0, success |-> 0, failed |-> 0, results |-> <<>>]

\* validate_batch(proxies) up to asyncio.gather: an empty batch returns at once
validate_batch(ps) ==
    /\ pcv = "idle"
    /\ proxies' = ps
    /\ report' = NoStatsYet
    /\ IF ps = <<>>
       THEN /\ pcv' = "returned"
            /\ UNCHANGED <<check, semaphore, gathered, outcome>>
       ELSE /\ pcv' = "gather"
            /\ semaphore' = max_concurrent
            /\ check' = [i \in DOMAIN ps |-> "waiting"]
            /\ gathered' = [i \in DOMAIN ps |-> NoResult]
            /\ outcome' = [i \in DOMAIN ps |-> NoResult]
    /\ UNCHANGED classified
    /\ UNCHANGED <<storeVars, schedVars, crawlVars, sessVars, rotVars, connVars>>

\* Mutant: the check starts without a permit
Acquire_NoWait(i) ==
    /\ pcv = "gather"
    /\ i \in DOMAIN check
    /\ check[i] = "waiting"
    /\ semaphore' = semaphore - 1
    /\ check' = [check EXCEPT ![i] = "inflight"]
    /\ UNCHANGED <<pcv, proxies, gathered, report, outcome, classified>>
    /\ UNCHANGED <<storeVars, schedVars, crawlVars, sessVars, rotVars, connVars>>

\* validate_with_semaphore: "async with semaphore" entered
Acquire(i) ==
    /\ pcv = "gather"
    /\ i \in DOMAIN check
    /\ check[i] = "waiting"
    /\ semaphore > 0
    /\ semaphore' = semaphore - 1
    /\ check' = [check EXCEPT ![i] = "inflight"]
    /\ UNCHANGED <<pcv, proxies, gathered, report, outcome, classified>>
    /\ UNCHANGED <<storeVars, schedVars, crawlVars, sessVars, rotVars, connVars>>

\* validate_with_semaphore: validate_proxy ends, the permit is given back
Finish(i, o) ==
    /\ pcv = "gather"
    /\ i \in DOMAIN check
    /\ check[i] = "inflight"
    /\ semaphore' = semaphore + 1
    /\ check' = [check EXCEPT ![i] = "done"]
    /\ gathered' = [gathered EXCEPT ![i] = validate_proxy(proxies[i], o)]
    /\ outcome' = [outcome EXCEPT ![i] = o]
    /\ classified' =
         IF gathered'[i].tuple /\ gathered'[i].success
         THEN [called |-> TRUE, headers |-> o.headers, proxy_ip |-> proxies[i].ip,
               level |-> gathered'[i].anonymity]
         ELSE classified
    /\ UNCHANGED <<pcv, proxies, report>>
    /\ UNCHANGED <<storeVars, schedVars, crawlVars, sessVars, rotVars, connVars>>

\* validate_batch after asyncio.gather: the results are processed and returned
ProcessResults ==
    /\ pcv = "gather"
    /\ \A i \in DOMAIN check : check[i] = "done"
    /\ report' = BatchStats(proxies, gathered)
    /\ pcv' = "returned"
    /\ UNCHANGED <<proxies, check, semaphore, gathered, outcome, classified>>
    /\ UNCHANGED <<storeVars, schedVars, crawlVars, sessVars, rotVars, connVars>>

\* execute_validation ends; the next batch can be given
BatchReturn ==
    /\ pcv = "returned"
    /\ pcv' = "idle"
    /\ UNCHANGED <<proxies, check, semaphore, gathered, report, outcome, classified>>
    /\ UNCHANGED <<storeVars, schedVars, crawlVars, sessVars, rotVars, connVars>>

\* _detect_anonymity called on its own, on any headers and any proxy address
DetectAnonymity(h, proxy_ip) ==
    /\ classified' = [called |-> TRUE, headers |-> h, proxy_ip |-> proxy_ip,
                      level |-> _detect_anonymity(h, proxy_ip)]
    /\ UNCHANGED <<pcv, proxies, check, semaphore, gathered, report, outcome>>
    /\ UNCHANGED <<storeVars, schedVars, crawlVars, sessVars, rotVars, connVars>>

----------------------------------------------------------------------------
(* The crawl: Proxy validation in create_proxy_data, SpiderService.run_all and
   crawl_task *)

\* What a source can hold for one proxy: the address, the port as a number or
\* as a text of characters, the protocol as a text or None
RawCandidates ==
    { [ip |-> "10.0.0.1", port |-> [num |-> 8080, text |-> <<>>], protocol |-> "http"],
      [ip |-> "10.0.0.2", port |-> [num |-> NULL, text |-> <<"3", "1", "2", "8">>],
       protocol |-> "SOCKS5"],
      [ip |-> "999.1.1.1", port |-> [num |-> 8080, text |-> <<>>], protocol |-> "http"],
      [ip |-> "10.0.0.1", port |-> [num |-> 70000, text |-> <<>>], protocol |-> "http"],
      [ip |-> "10.0.0.1", port |-> [num |-> NULL, text |-> <<"8", "0", "a">>],
       protocol |-> "http"],
      [ip |-> "10.0.0.1", port |-> [num |-> 8080, text |-> <<>>], protocol |-> "ftp"],
      [ip |-> "10.0.0.2", port |-> [num |-> 3128, text |-> <<>>], protocol |-> NONE] }

\* ipaddress.ip_address accepts the text
validate_ip(v) == v \in {"10.0.0.1", "10.0.0.2"}

\* int(v) of a text: the number, or ValueError (NULL) when a character is no digit
Digits == {"0", "1", "2", "3", "4", "5", "6", "7", "8", "9"}
DigitValue(ch) ==
    CASE ch = "0" -> 0 [] ch = "1" -> 1 [] ch = "2" -> 2 [] ch = "3" -> 3
      [] ch = "4" -> 4 [] ch = "5" -> 5 [] ch = "6" -> 6 [] ch = "7" -> 7
      [] ch = "8" -> 8 [] ch = "9" -> 9
RECURSIVE IntOfDigits(_)
IntOfDigits(t) ==
    IF t = <<>> THEN 0
    ELSE 10 * IntOfDigits(SubSeq(t, 1, Len(t) - 1)) + DigitValue(t[Len(t)])
IntOfText(t) ==
    IF t # <<>> /\ \A i \in DOMAIN t : t[i] \in Digits THEN IntOfDigits(t) ELSE NULL

\* normalize_port: int(v) if isinstance(v, str) else v
normalize_port(v) == IF v.num = NULL THEN IntOfText(v.text) ELSE v.num

\* normalize_protocol: v.lower() if isinstance(v, str) else v
normalize_protocol(v) == IF v = NONE THEN NONE ELSE lower(v)

\* Proxy(ip=..., port=..., protocol=..., source=...): does the model validate?
\* ip must be an address, port an integer in [1, 65535], protocol a str.
ProxyValidates(raw) ==
    /\ validate_ip(raw.ip)
    /\ normalize_port(raw.port) # NULL
    /\ normalize_port(raw.port) >= 1 /\ normalize_port(raw.port) <= 65535
    /\ normalize_protocol(raw.protocol) # NONE

\* create_proxy_data(ip, port, protocol): the Proxy, or None (<<>> here, for the
\* caller only tests its truth) after ValidationError or ValueError
create_proxy_data(raw, name) ==
    IF ProxyValidates(raw)
    THEN <<[ip |-> raw.ip, port |-> normalize_port(raw.port),
            protocol |-> normalize_protocol(raw.protocol),
            country |-> NONE, source |-> name, status |-> PENDING]>>
    ELSE <<>>

\* fetch_proxies of a spider: the entries that gave a Proxy, in order
RECURSIVE fetch_proxies(_, _)
fetch_proxies(raws, name) ==
    IF raws = <<>> THEN <<>>
    ELSE create_proxy_data(Head(raws), name) \o fetch_proxies(Tail(raws), name)

\* The spider classes found by _load_spiders, in the order found, with their
\* status flag; spiders holds the enabled ones
Registry ==
    << [name |-> "checked", status |-> TRUE],
       [name |-> "disabled", status |-> FALSE],
       [name |-> "github", status |-> TRUE] >>
spiders == SelectSeq(Registry, LAMBDA sp : sp.status)

\* How spider.run() can end: with the list fetch_proxies built from what the
\* source held, with TimeoutError, with another Exception, or cancelled
SpiderOutcomes ==
    { [kind |-> "list", raws |-> r] :
        r \in UNION { [1..n -> RawCandidates] : n \in 0..MaxRaw } }
    \cup { [kind |-> k, raws |-> <<>>] : k \in {"timeout", "raise", "cancelled"} }

\* an entry of the list run_all returns: a list of proxies, None, or an
\* exception gather collected
ListEntry(ps) == [list |-> TRUE, proxies |-> ps, marker |-> NONE]
ErrorEntry(m) == [list |-> FALSE, proxies |-> <<>>, marker |-> m]

\* _run_with_semaphore(semaphore, spider) when spider.run() ends with o, as
\* gather(return_exceptions=True) collects it
_run_with_semaphore(o, spider) ==
    CASE o.kind = "list" -> ListEntry(fetch_proxies(o.raws, spider.name))
      [] o.kind = "timeout" -> ErrorEntry(NONE)
      [] o.kind = "raise" -> ErrorEntry(NONE)
      [] o.kind = "cancelled" -> ErrorEntry("CancelledError")

\* number of proxies in the lists of entries es
RECURSIVE TotalProxies(_)
TotalProxies(es) ==
    IF es = <<>> THEN 0 ELSE Len(Head(es).proxies) + TotalProxies(Tail(es))

\* crawl_task up to the loop: run_all returns one entry per spider
run_all(outs) ==
    /\ crawl_pc = "idle"
    /\ LET res == [i \in DOMAIN spiders |-> _run_with_semaphore(outs[i], spiders[i])]
       IN  /\ nextId + TotalProxies(res) <= MaxId + 1
           /\ crawl_results' = res
           /\ to_merge' = res
    /\ spider_runs' = outs
    /\ store_faults' = {}
    /\ crawl_pc' = "merging"
    /\ UNCHANGED <<storeVars, schedVars, batchVars, sessVars, rotVars, connVars>>

\* INSERT ... ON CONFLICT DO NOTHING for every proxy of ps in turn, the first
\* taking the sequence value id: the table in the end
RECURSIVE executemany(_, _, _, _)
executemany(tbl, id, ps, t) ==
    IF ps = <<>> THEN tbl
    ELSE executemany(InsertOnConflictDoNothing(tbl, id, Head(ps), t),
                     id + 1, Tail(ps), t)

\* Mutant: the loop ends at the first entry that is no list
crawl_step_Break(es) ==
    IF Head(es).list THEN Tail(es) ELSE <<>>

\* crawl_task, "if not isinstance(proxies, list): continue": the entries left
\* after the first of es was looked at
crawl_step(es) == Tail(es)

\* crawl_task, one turn of the loop: an entry that is no list is passed over,
\* a list goes to add_batch, whose executemany inserts it or fails as a whole
CrawlMerge(stored) ==
    /\ crawl_pc = "merging"
    /\ to_merge # <<>>
    /\ LET e == Head(to_merge)
           k == Len(crawl_results) - Len(to_merge) + 1
       IN  IF e.list /\ e.proxies # <<>>
           THEN /\ rows' = IF stored THEN executemany(rows, nextId, e.proxies, now)
                                     ELSE rows
                /\ nextId' = IF stored THEN nextId + Len(e.proxies) ELSE nextId
                /\ store_faults' = IF stored THEN store_faults
                                             ELSE store_faults \cup {k}
           ELSE /\ stored
                /\ UNCHANGED <<rows, nextId, store_faults>>
    /\ to_merge' = crawl_step(to_merge)
    /\ crawl_pc' = IF to_merge' = <<>> THEN "idle" ELSE "merging"
    /\ UNCHANGED <<now, batch, results, issued, calls, overlapped, tried, raced>>
    /\ UNCHANGED <<crawl_results, spider_runs>>
    /\ UNCHANGED <<schedVars, batchVars, sessVars, rotVars, connVars>>

----------------------------------------------------------------------------
(* Whole executions of the two validation tasks, one after the other, for
   behaviours without end. The statements read the timestamps only through
   their order, and nothing reads success_count: after every execution the
   timestamps are renumbered in their order and success_count is kept up to
   MaxSuccess, so that the table stays in a finite set. *)

\* The table with its timestamps replaced by their ranks
Renumbered(tbl) ==
    LET S == UNION { { tbl[i].last_checked, tbl[i].last_success,
                       tbl[i].created_at, tbl[i].updated_at } : i \in DOMAIN tbl }
                 \ {NULL}
        rank(t) == IF t = NULL THEN NULL ELSE Cardinality({ u \in S : u < t })
    IN  [i \in DOMAIN tbl |->
            [tbl[i] EXCEPT !.last_checked = rank(@), !.last_success = rank(@),
                           !.created_at = rank(@), !.updated_at = rank(@),
                           !.success_count = Min(@, MaxSuccess)]]

\* The recording loop of execute_validation over the verdicts of the batch s:
\* each UPDATE has its own NOW(), later than the one before
RECURSIVE RecordAll(_, _, _, _)
RecordAll(tbl, s, outs, t) ==
    IF s = <<>> THEN tbl
    ELSE RecordAll(record_validation_result(tbl, Head(s), Head(outs).is_success,
                                            Head(outs).response_time,
                                            Head(outs).anonymity, t),
                   Tail(s), Tail(outs), t + 1)

\* execute_validation over the batch s of a query, each proxy failing or
\* working (one measurement), at a time later than every timestamp of the table
ExecuteValidation(s) ==
    LET S == { rows[i].updated_at : i \in DOMAIN rows } \cup {now}
        latest == CHOOSE t \in S : \A u \in S : u <= t
    IN  \E outs \in [1..Len(s) -> { o \in Outcomes : o.anonymity # "transparent" }] :
            rows' = Renumbered(RecordAll(rows, s, outs, latest + 1))

\* One execution of Pending-Revalidation with batch limit `limit`
PendingRevalidation(limit) ==
    /\ \E s \in get_proxies_needing_validation(rows, limit, max_fail_count) :
         /\ ExecuteValidation(s)
         /\ picked' = { s[k] : k \in 1..Len(s) }
    /\ UNCHANGED <<nextId, now, batch, results, issued, calls, overlapped, tried, raced>>
    /\ UNCHANGED <<schedVars, batchVars, crawlVars, sessVars, connVars>>

\* One execution of Success-Revalidation
SuccessRevalidation ==
    /\ \E s \in get_successful_proxies_for_validation(rows, success_limit) :
         ExecuteValidation(s)
    /\ UNCHANGED <<nextId, now, batch, results, issued, calls, overlapped, tried, raced>>
    /\ UNCHANGED <<schedVars, batchVars, crawlVars, sessVars, rotVars, connVars>>

----------------------------------------------------------------------------
(* The validator's HTTP session: ValidatorService.current_session and close,
   used by the two validation tasks that one worker (the leader) runs *)

\* validate_pending_task and validate_success_task, both through execute_validation
ValidationTasks == {"pending", "success"}

\* current_session: the shared session, made when there is none
current_session == IF _session = 0 THEN created + 1 ELSE _session

\* execute_validation collects n proxies; with none it returns at once, and
\* its finally clause still runs
execute_validation(t, n) ==
    /\ exec_pc[t] = "idle"
    /\ exec_pc' = [exec_pc EXCEPT ![t] = IF n = 0 THEN "closing" ELSE "validating"]
    /\ requests' = [requests EXCEPT ![t] = [i \in 1..n |-> [state |-> "waiting", on |-> 0]]]
    /\ UNCHANGED <<_session, created, closed>>
    /\ UNCHANGED <<storeVars, schedVars, batchVars, crawlVars, rotVars, connVars>>

\* validate_proxy: self.current_session.request(...) is sent for one proxy
request(t, i) ==
    /\ exec_pc[t] = "validating"
    /\ i \in DOMAIN requests[t]
    /\ requests[t][i].state = "waiting"
    /\ _session # 0 \/ created < MaxSessions
    /\ requests' = [requests EXCEPT ![t][i] = [state |-> "sent", on |-> current_session]]
    /\ _session' = current_session
    /\ created' = IF _session = 0 THEN created + 1 ELSE created
    /\ UNCHANGED <<closed, exec_pc>>
    /\ UNCHANGED <<storeVars, schedVars, batchVars, crawlVars, rotVars, connVars>>

\* The request of one proxy ends (response, timeout or error); after the last
\* one gather returns and the results are recorded
response(t, i) ==
    /\ exec_pc[t] = "validating"
    /\ i \in DOMAIN requests[t]
    /\ requests[t][i].state = "sent"
    /\ requests' = [requests EXCEPT ![t][i].state = "done"]
    /\ exec_pc' = [exec_pc EXCEPT ![t] =
                     IF \A j \in DOMAIN requests[t] : requests'[t][j].state = "done"
                     THEN "closing" ELSE "validating"]
    /\ UNCHANGED <<_session, created, closed>>
    /\ UNCHANGED <<storeVars, schedVars, batchVars, crawlVars, rotVars, connVars>>

\* finally: await validator_service.close()
close(t) ==
    /\ exec_pc[t] = "closing"
    /\ closed' = IF _session # 0 THEN closed \cup {_session} ELSE closed
    /\ _session' = 0
    /\ exec_pc' = [exec_pc EXCEPT ![t] = "idle"]
    /\ requests' = [requests EXCEPT ![t] = <<>>]
    /\ UNCHANGED created
    /\ UNCHANGED <<storeVars, schedVars, batchVars, crawlVars, rotVars, connVars>>

BatchArgs == UNION { [1..n -> Candidates] : n \in 1..MaxBatch }

Init ==
    /\ rows = <<>>
    /\ nextId = 1
    /\ now = 0
    /\ batch = [w \in Workers |-> <<>>]
    /\ results = [w \in Workers |-> <<>>]
    /\ issued = 0
    /\ calls = [i \in 1..MaxId |-> <<>>]
    /\ overlapped = {}
    /\ tried = [k \in Keys |-> <<>>]
    /\ raced = {}
    /\ running = [w \in Workers |-> FALSE]
    /\ task = [w \in Workers |-> NoTask]
    /\ pc = [w \in Workers |-> "new"]
    /\ start_time = [w \in Workers |-> NULL]
    /\ execution_time = [w \in Workers |-> 0]
    /\ wake = [w \in Workers |-> NULL]
    /\ cancelling = [w \in Workers |-> FALSE]
    /\ cache = NoStats
    /\ lock = 0
    /\ shared = [w \in Workers |-> FALSE]
    /\ restarts = 0
    /\ faults = [w \in Workers |-> 0]
    /\ persisted = [w \in Workers |-> [present |-> FALSE]]
    /\ clock = 0
    /\ active = [w \in Workers |-> 0]
    /\ runs = [w \in Workers |-> <<>>]
    /\ pcv = "idle"
    /\ proxies = <<>>
    /\ check = <<>>
    /\ semaphore = max_concurrent
    /\ gathered = <<>>
    /\ report = NoStatsYet
    /\ outcome = <<>>
    /\ classified = [called |-> FALSE, headers |-> NoHeaders, proxy_ip |-> <<>>,
                     level |-> NONE]
    /\ crawl_pc = "idle"
    /\ crawl_results = <<>>
    /\ to_merge = <<>>
    /\ spider_runs = <<>>
    /\ store_faults = {}
    /\ picked = {}
    /\ client = [w \in Workers |-> FALSE]
    /\ stopped = [w \in Workers |-> FALSE]
    /\ _session = 0
    /\ created = 0
    /\ closed = {}
    /\ exec_pc = [t \in ValidationTasks |-> "idle"]
    /\ requests = [t \in ValidationTasks |-> <<>>]

Next ==
    \/ Tick
    \/ \E p \in Candidates : add_proxy(p)
    \/ \E w \in Workers, ps \in BatchArgs : AddBatchBegin(w, ps)
    \/ \E w \in Workers : AddBatchStep(w)
    \/ \E w \in Workers : validate_pending_task(w)
    \/ \E w \in Workers : validate_success_task(w)
    \/ \E w \in Workers : RecordStep(w)
    \/ \E m \in {2, 3} : CleanupFailed(m)
    \/ \E d \in {0, 1} : CleanupStale(d)
    \/ \E S \in SUBSET DOMAIN rows : \E updates \in [S -> {"DE"}] :
         UpdateCountry(updates)

Spec == Init /\ [][Next]_vars

\* Candidates are only inserted: the crawl side of the store alone
NextUpsert ==
    \/ Tick
    \/ \E p \in Candidates : add_proxy(p)
    \/ \E w \in Workers, ps \in BatchArgs : AddBatchBegin(w, ps)
    \/ \E w \in Workers : AddBatchStep(w)

SpecUpsert == Init /\ [][NextUpsert]_vars

\* Rows are inserted and validated: the validation side of the store alone
NextVerdict ==
    \/ Tick
    \/ \E p \in Candidates : add_proxy(p)
    \/ \E w \in Workers : validate_pending_task(w)
    \/ \E w \in Workers : validate_success_task(w)
    \/ \E w \in Workers : RecordStep(w)

SpecVerdict == Init /\ [][NextVerdict]_vars

\* One worker inserts and validates: record_validation_result called in sequence
NextSeq ==
    \/ Tick
    \/ \E p \in Candidates : add_proxy(p)
    \/ validate_pending_task("w1")
    \/ validate_success_task("w1")
    \/ RecordStep("w1")

SpecSeq == Init /\ [][NextSeq]_vars

\* One worker inserts and validates, and the cleanups run
NextCleanup ==
    \/ NextSeq
    \/ \E m \in {2, 3} : CleanupFailed(m)
    \/ \E d \in {0, 1} : CleanupStale(d)

SpecCleanup == Init /\ [][NextCleanup]_vars

\* A deployment with MAX_FAIL_COUNT=2 in its environment: rows are inserted,
\* two workers validate, and the cleanup task runs
NextLowMaxFail ==
    \/ Tick
    \/ \E p \in Candidates : add_proxy(p)
    \/ \E w \in Workers : validate_pending_task_with(w, 2)
    \/ validate_success_task("w1")
    \/ \E w \in Workers : RecordStep(w)
    \/ cleanup_task

SpecLowMaxFail == Init /\ [][NextLowMaxFail]_vars

\* The crawl task runs, and time passes
NextCrawl ==
    \/ Tick
    \/ \E outs \in [DOMAIN spiders -> SpiderOutcomes] : run_all(outs)
    \/ \E stored \in BOOLEAN : CrawlMerge(stored)

SpecCrawl == Init /\ [][NextCrawl]_vars

\* One validate_batch call after another
NextBatch ==
    \/ \E ps \in Batches : validate_batch(ps)
    \/ \E i \in 1..MaxProxies : Acquire(i)
    \/ \E i \in 1..MaxProxies : \E o \in RequestOutcomes : Finish(i, o)
    \/ ProcessResults
    \/ BatchReturn

SpecBatch == Init /\ [][NextBatch]_vars

\* The same, with the scheduling asyncio gives: a coroutine waiting for a free
\* permit gets it, and a request ends, with a response or at its timeout
SpecBatchFair ==
    /\ Init
    /\ [][NextBatch]_vars
    /\ WF_vars(\E i \in 1..MaxProxies : Acquire(i))
    /\ WF_vars(\E i \in 1..MaxProxies : \E o \in RequestOutcomes : Finish(i, o))

\* The classifier applied to responses of every shape
NextClassify ==
    \E h \in Headers : \E p \in BatchProxies : DetectAnonymity(h, p.ip)

SpecClassify == Init /\ [][NextClassify]_vars

\* One worker's task loop
NextSched ==
    \/ ClockTick
    \/ \E iv \in Intervals, reachable \in BOOLEAN : Initialize("w1", iv, reachable)
    \/ Start("w1")
    \/ LoopStep("w1")
    \/ Wake("w1")
    \/ FuncReturn("w1")
    \/ FuncRaise("w1")
    \/ FuncCancelled("w1")
    \/ \E reachable \in BOOLEAN : Persist("w1", reachable)
    \/ CancelLoop("w1")
    \/ Stop("w1")

SpecSched == Init /\ [][NextSched]_vars

\* One worker's task loop over restarts of the worker, without stop and
\* cancellation
NextRestart ==
    \/ ClockTick
    \/ \E iv \in Intervals, reachable \in BOOLEAN : Initialize("w1", iv, reachable)
    \/ Start("w1")
    \/ LoopStep("w1")
    \/ Wake("w1")
    \/ FuncReturn("w1")
    \/ FuncRaise("w1")
    \/ \E reachable \in BOOLEAN : Persist("w1", reachable)
    \/ Restart("w1")

SpecRestart == Init /\ [][NextRestart]_vars

\* Both workers run their Pending Proxy Validation task over the one cache:
\* the hash task:stats:<name> has the task's name as its only key part. Each
\* process is followed through the first run of its task; one worker is
\* restarted
NextWorkers ==
    \/ ClockTick
    \/ \E w \in Workers :
         \/ Initialize(w, 1, TRUE)
         \/ Start(w)
         \/ runs[w] = <<>> /\ LoopStep(w)
         \/ FuncReturn(w)
         \/ Persist(w, TRUE)
    \/ Restart("w1")

SpecWorkers == Init /\ [][NextWorkers]_vars

\* One worker's task loop when store statements can fail inside func
NextFault ==
    \/ ClockTick
    \/ \E iv \in Intervals, reachable \in BOOLEAN : Initialize("w1", iv, reachable)
    \/ Start("w1")
    \/ LoopStep("w1")
    \/ Wake("w1")
    \/ FuncReturn("w1")
    \/ FuncStoreError("w1")
    \/ \E reachable \in BOOLEAN : Persist("w1", reachable)

SpecFault == Init /\ [][NextFault]_vars

\* The workers' life cycle: initialize, start, stop, restart
NextFleet ==
    \/ ClockTick
    \/ \E w \in Workers, iv \in Intervals, reachable \in BOOLEAN :
           Initialize(w, iv, reachable)
    \/ \E w \in Workers : Start(w)
    \/ \E w \in Workers : Stop(w)
    \/ \E w \in Workers : Restart(w)

SpecFleet == Init /\ [][NextFleet]_vars

\* The rows are inserted (at most MaxId) and the two validation tasks are
\* executed again and again; the task loop starts Pending-Revalidation every
\* interval for as long as the worker runs
NextRotation ==
    \/ \E p \in { c \in Candidates : c.source = "srcA" } : add_proxy(p)
    \/ \E limit \in 1..validate_batch_limit : PendingRevalidation(limit)
    \/ SuccessRevalidation

SpecRotation ==
    /\ Init
    /\ [][NextRotation]_vars
    /\ WF_vars(\E limit \in 1..validate_batch_limit : PendingRevalidation(limit))

\* The two validation tasks of one worker and the session they share
NextSession ==
    \E t \in ValidationTasks :
        \/ \E n \in 0..MaxProxies : execute_validation(t, n)
        \/ \E i \in 1..MaxProxies : request(t, i)
        \/ \E i \in 1..MaxProxies : response(t, i)
        \/ close(t)

SpecSession == Init /\ [][NextSession]_vars

\* The same, with a store that may be down when a worker initializes
NextStartup ==
    \/ NextFleet
    \/ \E w \in Workers : InitializeStoreDown(w)

SpecStartup == Init /\ [][NextStartup]_vars

----------------------------------------------------------------------------
(* Claims about record_validation_result *)

\* The step taken is worker w's record_validation_result call for the verdict at
\* the head of its results, on a row that exists.
Recorded(w) ==
    /\ results[w] # <<>>
    /\ results'[w] = Tail(results[w])
    /\ Head(results[w]).proxy_id \in DOMAIN rows

\* Rows other than id are as they were, and id keeps the columns no verdict writes.
FrameOfVerdict(id) ==
    /\ DOMAIN rows' = DOMAIN rows
    /\ \A j \in DOMAIN rows \ {id} : rows'[j] = rows[j]
    /\ rows'[id].ip = rows[id].ip
    /\ rows'[id].port = rows[id].port
    /\ rows'[id].protocol = rows[id].protocol
    /\ rows'[id].country = rows[id].country
    /\ rows'[id].source = rows[id].source
    /\ rows'[id].created_at = rows[id].created_at

\* What a success verdict does to every column but speed
SuccessEffect(v) ==
    LET r == rows[v.proxy_id]
        r2 == rows'[v.proxy_id]
    IN  /\ r2.success_count = r.success_count + 1
        /\ r2.fail_count = (IF r.fail_count >= 1 THEN r.fail_count - 1 ELSE 0)
        /\ r2.status = SUCCESS
        /\ r2.last_success = now
        /\ r2.last_checked = now
        /\ r2.updated_at = now
        /\ r2.anonymity = v.anonymity
        /\ FrameOfVerdict(v.proxy_id)

\* C1 as stated: a success verdict increments success_count, clamps fail_count to
\* max(fail_count - 1, 0), sets status SUCCESS, sets last_success and last_checked
\* to the current time and overwrites speed and anonymity with the supplied values.
C1_AsStated ==
    [][\A w \in Workers :
         (Recorded(w) /\ Head(results[w]).is_success) =>
            /\ SuccessEffect(Head(results[w]))
            /\ rows'[Head(results[w]).proxy_id].speed = Head(results[w]).response_time
      ]_vars

\* C1 amended: as C1, except that the speed written is the supplied response time
\* rounded to two decimals (here: to the nearest 10 ms), not the supplied value.
C1_SuccessVerdict ==
    [][\A w \in Workers :
         (Recorded(w) /\ Head(results[w]).is_success) =>
            LET v == Head(results[w])
                sp == rows'[v.proxy_id].speed
            IN  /\ SuccessEffect(v)
                /\ sp % 10 = 0
                /\ sp - v.response_time <= 5
                /\ v.response_time - sp <= 5
      ]_vars

\* C1 witness: a success verdict was recorded on a row that had failed twice, and
\* the supplied 374 ms were stored as 370 ms.
C1_Witness ==
    \E i \in DOMAIN rows :
        /\ rows[i].status = SUCCESS
        /\ rows[i].success_count = 1
        /\ rows[i].fail_count = 1
        /\ rows[i].speed = 370

\* C2: a failed verdict increments fail_count, resets success_count to 0, sets
\* status FAILED and last_checked to the current time, and leaves speed, anonymity
\* and last_success (and the columns no verdict writes) unchanged.
C2_FailedVerdict ==
    [][\A w \in Workers :
         (Recorded(w) /\ ~Head(results[w]).is_success) =>
            LET v == Head(results[w])
                r == rows[v.proxy_id]
                r2 == rows'[v.proxy_id]
            IN  /\ r2.fail_count = r.fail_count + 1
                /\ r2.success_count = 0
                /\ r2.status = FAILED
                /\ r2.last_checked = now
                /\ r2.updated_at = now
                /\ r2.speed = r.speed
                /\ r2.anonymity = r.anonymity
                /\ r2.last_success = r.last_success
                /\ FrameOfVerdict(v.proxy_id)
      ]_vars

\* C2 witness: a row that succeeded and then failed keeps the speed, anonymity and
\* last_success of the success, with last_checked later than last_success.
C2_Witness ==
    \E i \in DOMAIN rows :
        /\ rows[i].status = FAILED
        /\ rows[i].fail_count = 1
        /\ rows[i].success_count = 0
        /\ rows[i].speed # NULL
        /\ rows[i].anonymity # NONE
        /\ rows[i].last_success # NULL
        /\ rows[i].last_checked > rows[i].last_success

Front(q) == SubSeq(q, 1, Len(q) - 1)

\* fail_count after the verdicts of history h on a freshly inserted row, by the
\* transition rules as the data model states them
RECURSIVE FailsAfter(_)
FailsAfter(h) ==
    IF h = <<>> THEN 0
    ELSE IF Last(h).is_success
         THEN (IF FailsAfter(Front(h)) >= 1 THEN FailsAfter(Front(h)) - 1 ELSE 0)
         ELSE FailsAfter(Front(h)) + 1

\* success_count after the verdicts of history h on a freshly inserted row
RECURSIVE SuccessesAfter(_)
SuccessesAfter(h) ==
    IF h = <<>> THEN 0
    ELSE IF Last(h).is_success THEN SuccessesAfter(Front(h)) + 1 ELSE 0

\* C3 as stated: after any non-empty sequence of verdicts on one id, if the last
\* was a success the row has fail_count = 0 and last_success = that call's time.
C3_AsStated ==
    \A i \in DOMAIN rows :
        (calls[i] # <<>> /\ Last(calls[i]).is_success) =>
            /\ rows[i].fail_count = 0
            /\ rows[i].last_success = Last(calls[i]).t

\* C3 amended: after any non-empty sequence of verdicts on one id, if the last was
\* a success the row's fail_count is max(f - 1, 0), f being the fail_count before
\* that call (0 only when f <= 1), and last_success is that call's time.
C3_LastSuccess ==
    \A i \in DOMAIN rows :
        (calls[i] # <<>> /\ Last(calls[i]).is_success) =>
            /\ rows[i].fail_count =
                 (IF FailsAfter(Front(calls[i])) >= 1
                  THEN FailsAfter(Front(calls[i])) - 1 ELSE 0)
            /\ rows[i].last_success = Last(calls[i]).t

\* C3 witness: failure, failure, success on one id leaves fail_count = 1
C3_Witness ==
    \E i \in DOMAIN rows :
        /\ Len(calls[i]) = 3
        /\ ~calls[i][1].is_success /\ ~calls[i][2].is_success
        /\ calls[i][3].is_success
        /\ rows[i].fail_count = 1

\* The verdict worker w records now has the inputs of the call last applied to
\* the same id: record_validation_result is applied a second time.
Reapplied(w) ==
    /\ Recorded(w)
    /\ LET v == Head(results[w])
           h == calls[v.proxy_id]
       IN  /\ h # <<>>
           /\ Last(h).is_success = v.is_success
           /\ Last(h).response_time = v.response_time
           /\ Last(h).anonymity = v.anonymity

\* C4 as stated: a second application with the same inputs leaves the row as the
\* first left it, apart from updated_at and the check timestamps.
C4_AsStated ==
    [][\A w \in Workers :
         Reapplied(w) =>
            LET id == Head(results[w]).proxy_id
            IN  rows'[id] = [rows[id] EXCEPT
                               !.updated_at = rows'[id].updated_at,
                               !.last_checked = rows'[id].last_checked,
                               !.last_success = rows'[id].last_success]
      ]_vars

\* C4 amended: a second application with the same inputs leaves status, speed and
\* anonymity as the first left them, but not the counters: a repeated success adds
\* 1 to success_count and takes 1 from fail_count (down to 0), a repeated failure
\* adds 1 to fail_count and leaves success_count at 0.
C4_Reapplication ==
    [][\A w \in Workers :
         Reapplied(w) =>
            LET v == Head(results[w])
                r == rows[v.proxy_id]
                r2 == rows'[v.proxy_id]
            IN  /\ r2.status = r.status
                /\ r2.speed = r.speed
                /\ r2.anonymity = r.anonymity
                /\ v.is_success =>
                     /\ r2.success_count = r.success_count + 1
                     /\ r2.fail_count = (IF r.fail_count >= 1
                                         THEN r.fail_count - 1 ELSE 0)
                /\ ~v.is_success =>
                     /\ r2.success_count = 0 /\ r.success_count = 0
                     /\ r2.fail_count = r.fail_count + 1
      ]_vars

\* C4 witness: the same success verdict was applied twice in a row to one id, and
\* success_count is 2
C4_Witness ==
    \E i \in DOMAIN rows :
        /\ Len(calls[i]) >= 2
        /\ Last(calls[i]).is_success
        /\ Last(Front(calls[i])).is_success
        /\ Last(calls[i]).response_time = Last(Front(calls[i])).response_time
        /\ Last(calls[i]).anonymity = Last(Front(calls[i])).anonymity
        /\ rows[i].success_count = 2

----------------------------------------------------------------------------
(* Claims about the inserts *)

RowsWithKey(k) == { i \in DOMAIN rows : KeyOf(rows[i]) = k }

\* C5: for every key and any number of add_proxy / add_batch inserts of it, from
\* any workers in any order, exactly one row with the key exists afterwards, and
\* it is the row the first insert made: its source and country, status PENDING,
\* the other columns at their defaults; the later inserts changed nothing.
C5_FirstInsertWins ==
    \A k \in Keys :
        tried[k] # <<>> =>
            /\ Cardinality(RowsWithKey(k)) = 1
            /\ \A i \in RowsWithKey(k) :
                 LET first == Head(tried[k])
                 IN  /\ rows[i].source = first.source
                     /\ rows[i].country = first.country
                     /\ rows[i].status = PENDING
                     /\ rows[i].anonymity = NONE
                     /\ rows[i].speed = NULL
                     /\ rows[i].success_count = 0
                     /\ rows[i].fail_count = 0
                     /\ rows[i].last_checked = NULL
                     /\ rows[i].last_success = NULL
                     /\ rows[i].updated_at = rows[i].created_at

\* C5 witness: two workers' batches inserted the same key with different sources,
\* one while the other's insert was still pending, and both inserts are done.
C5_Witness ==
    \E k \in raced :
        /\ Len(tried[k]) >= 2
        /\ tried[k][1].source # tried[k][2].source
        /\ \A w \in Workers : batch[w] = <<>>

----------------------------------------------------------------------------
(* Claims about concurrent verdicts *)

\* C6: whatever the interleaving of the workers' record_validation_result calls
\* for one id, the row is the one the calls give when applied one after the other
\* in the order the store executed them: no counter update is lost, and the status
\* (with last_checked, and last_success after a success) is that of the last call.
C6_VerdictsSerialize ==
    \A i \in DOMAIN rows :
        calls[i] # <<>> =>
            /\ rows[i].fail_count = FailsAfter(calls[i])
            /\ rows[i].success_count = SuccessesAfter(calls[i])
            /\ rows[i].status = (IF Last(calls[i]).is_success THEN SUCCESS ELSE FAILED)
            /\ rows[i].last_checked = Last(calls[i]).t
            /\ Last(calls[i]).is_success => rows[i].last_success = Last(calls[i]).t

\* C6 witness: two workers held a verdict for the same id at the same time, both
\* have been recorded, and two failures count as two.
C6_Witness ==
    \E i \in overlapped :
        /\ i \in DOMAIN rows
        /\ Len(calls[i]) = 2
        /\ \A w \in Workers : ~HoldsVerdictFor(w, i)
        /\ rows[i].fail_count = 2

----------------------------------------------------------------------------
(* Claims about every reachable state of the store *)

\* C7: a row with status PENDING has last_success NULL, in every state that
\* inserts, verdicts, country updates and cleanups can reach.
C7_PendingNeverSucceeded ==
    \A i \in DOMAIN rows : rows[i].status = PENDING => rows[i].last_success = NULL

\* C7 witness: a PENDING row beside a row that has succeeded and had its country
\* set, after a cleanup has removed a row
C7_Witness ==
    /\ \E i \in DOMAIN rows : rows[i].status = PENDING
    /\ \E j \in DOMAIN rows : rows[j].last_success # NULL /\ rows[j].country = "DE"

----------------------------------------------------------------------------
(* Claims about the scheduler *)

\* C8: after each run of a task, successful or failed, next_run is the previous
\* next_run plus exactly interval, or the run's start time plus interval if no
\* next_run existed; so the successive next_run values form an arithmetic
\* progression with step interval, whatever the execution times are.
C8_DriftFree ==
    \A w \in Workers :
        /\ \A k \in DOMAIN runs[w] :
               /\ runs[w][k].next =
                      (IF runs[w][k].tick = NULL THEN runs[w][k].start
                                                 ELSE runs[w][k].tick) + task[w].interval
               /\ k > 1 => runs[w][k].next = runs[w][k - 1].next + task[w].interval
        /\ runs[w] # <<>> => task[w].next_run = Last(runs[w]).next

\* C8 witness: three runs, one of which failed and one of which took longer than
\* the interval
C8_Witness ==
    \E w \in Workers :
        /\ Len(runs[w]) >= 3
        /\ task[w].failure_count >= 1
        /\ task[w].execution_count >= 1
        /\ \E k \in DOMAIN runs[w] : runs[w][k].end - runs[w][k].start > task[w].interval

\* C9: within one worker at most one invocation of the task's func is in
\* progress at any time, and is_running is true exactly while an invocation is in
\* progress: it is false again after a return, an exception or a cancellation.
C9_SingleFlight ==
    \A w \in Workers :
        Initialized(w) =>
            /\ active[w] <= 1
            /\ task[w].is_running <=> active[w] = 1
            /\ task[w].is_running <=> pc[w] = "func"

\* C9 witness: the task has returned once, raised once, and its last invocation
\* was cancelled; is_running is false
C9_Witness ==
    \E w \in Workers :
        /\ pc[w] = "done"
        /\ cancelling[w]
        /\ task[w].execution_count >= 1
        /\ task[w].failure_count >= 1
        /\ ~task[w].is_running

\* C10: a tick whose scheduled time arrives while an invocation of the task is
\* active is dropped: no later execution serves it, so the task does not run
\* back-to-back after a long invocation to make up the ticks it missed.
C10_OverlappedTicksDropped ==
    \A w \in Workers :
        pc[w] = "func" /\ task[w].next_run # NULL =>
            \A k \in DOMAIN runs[w] :
                ~(runs[w][k].start < task[w].next_run /\ task[w].next_run < runs[w][k].end)

----------------------------------------------------------------------------
(* Claims about the leader lock and the workers' life cycle *)

\* C11: the shared tasks are registered in at most one running worker at any
\* time, for every start order and spacing of the workers, including a worker
\* that initializes more than the lock's life after the lock was taken.
C11_SharedInOneWorker ==
    Cardinality({ w \in Workers : running[w] /\ shared[w] }) <= 1

\* C12: when two workers initialize together with the cache reachable, exactly
\* one of them obtains the key and registers the shared tasks, and both register
\* the per-worker pending-validation task.
C12_OneLeader ==
    (restarts = 0 /\ clock < LockTTL /\ \A w \in Workers : Initialized(w)) =>
        /\ Cardinality({ w \in Workers : shared[w] }) = 1
        /\ \A w \in Workers : task[w] # NoTask
        /\ lock > 0

\* C12 witness: both workers have initialized at time 0 and the second one named
\* is the leader
C12_Witness ==
    /\ clock = 0 /\ restarts = 0
    /\ \A w \in Workers : Initialized(w)
    /\ shared["w2"] /\ ~shared["w1"]
    /\ task["w1"] # NoTask

\* C13: whenever a worker is running (and no worker is between initialize and
\* start), the shared tasks are registered in some running worker; so after the
\* leader stops, a worker that initializes while the key exists takes them over.
C13_SharedSomewhere ==
    ((\E w \in Workers : running[w]) /\ (\A w \in Workers : pc[w] # "idle")) =>
        \E w \in Workers : running[w] /\ shared[w]

\* C14: when the cache is unreachable as a worker initializes, initialize
\* completes and the worker registers the shared tasks and its per-worker task.
C14_InitializeWithoutCache ==
    [][\A w \in Workers, iv \in Intervals :
         Initialize(w, iv, FALSE) =>
            /\ pc'[w] = "idle"
            /\ shared'[w]
            /\ task'[w] # NoTask
      ]_vars

----------------------------------------------------------------------------
(* Claims about failures and cancellation in the task loop *)

\* C15: when func raises an exception other than cancellation, failure_count
\* grows by 1, execution_count is unchanged, next_run is advanced by interval,
\* the task is idle again, and the loop goes on to further executions.
C15_ExceptionCounted ==
    [][\A w \in Workers :
         /\ FuncRaise(w) =>
               /\ task'[w].failure_count = task[w].failure_count + 1
               /\ task'[w].execution_count = task[w].execution_count
               /\ task'[w].last_run = task[w].last_run
               /\ task'[w].next_run =
                     (IF task[w].next_run = NULL THEN start_time[w]
                                                 ELSE task[w].next_run) + task[w].interval
               /\ ~task'[w].is_running
               /\ pc'[w] = "persist"
         /\ (pc[w] = "persist" /\ ~cancelling[w] /\ pc'[w] # "persist"
               /\ ~CancelLoop(w)) =>
               pc'[w] = "loop"
      ]_vars

\* C15 witness: after two runs that raised and none that returned, a further
\* execution is under way
C15_Witness ==
    \E w \in Workers :
        /\ pc[w] = "func"
        /\ Len(runs[w]) = 2
        /\ task[w].failure_count = 2
        /\ task[w].execution_count = 0

\* C16: when a store statement fails during an execution of a registered task,
\* the execution counts as failed: failure_count grows by 1 and execution_count
\* does not.
C16_StoreFailureCounted ==
    [][\A w \in Workers :
         FuncStoreError(w) =>
            /\ task'[w].failure_count = task[w].failure_count + 1
            /\ task'[w].execution_count = task[w].execution_count
      ]_vars

\* C17: a cancellation delivered while the loop sleeps ends the loop: the task's
\* counters, last_run and next_run are unchanged, and no execution starts later.
C17_CancelInSleep ==
    [][\A w \in Workers :
         /\ (pc[w] = "sleep" /\ CancelLoop(w)) =>
               /\ pc'[w] = "done"
               /\ task'[w] = task[w]
               /\ runs'[w] = runs[w]
         /\ pc[w] = "done" =>
               /\ pc'[w] = "done"
               /\ task'[w] = task[w]
               /\ active'[w] = 0
      ]_vars

\* C17 witness: after an execution the loop was cancelled in its sleep, with the
\* scheduler still running
C17_Witness ==
    \E w \in Workers :
        /\ pc[w] = "done"
        /\ running[w]
        /\ ~cancelling[w]
        /\ task[w].execution_count >= 1
        /\ wake[w] = task[w].next_run

----------------------------------------------------------------------------
(* Claims about restarts *)

\* C18: task state survives a restart: when a worker initializes while the hash
\* its task persisted is still stored, the restored execution_count,
\* failure_count, last_run and next_run are the persisted values, and the first
\* run after the restart advances next_run from the restored value by interval.
C18_StateSurvivesRestart ==
    [][\A w \in Workers :
         /\ (cache.present /\ \E iv \in Intervals : Initialize(w, iv, TRUE)) =>
               /\ persisted[w].present
               /\ task'[w].execution_count = persisted[w].execution_count
               /\ task'[w].failure_count = persisted[w].failure_count
               /\ task'[w].last_run = persisted[w].last_run
               /\ task'[w].next_run = persisted[w].next_run
         /\ (pc[w] = "func" /\ pc'[w] = "persist" /\ runs[w] = <<>>
               /\ persisted[w].present /\ task[w].next_run = persisted[w].next_run) =>
               task'[w].next_run = persisted[w].next_run + task[w].interval
      ]_vars

\* C18 witness: after a restart the task, which had returned once and raised
\* once, has run once more from the restored schedule
C18_Witness ==
    \E w \in Workers :
        /\ restarts = 1
        /\ Initialized(w)
        /\ Len(runs[w]) = 1
        /\ runs[w][1].tick # NULL
        /\ task[w].execution_count >= 2
        /\ task[w].failure_count >= 1

\* C19: on start, a task whose restored next_run is in the past is executed at
\* once, without sleeping first.
C19_PastDueRunsAtOnce ==
    [][\A w \in Workers :
         (pc[w] = "loop" /\ running[w] /\ runs[w] = <<>> /\ task[w].next_run # NULL
            /\ task[w].next_run < clock /\ LoopStep(w)) =>
               /\ pc'[w] = "func"
               /\ start_time'[w] = clock
               /\ task'[w].is_running
      ]_vars

\* C19 witness: after a restart the first execution is under way for a restored
\* next_run that lies in the past
C19_Witness ==
    \E w \in Workers :
        /\ restarts = 1
        /\ pc[w] = "func"
        /\ runs[w] = <<>>
        /\ task[w].next_run # NULL
        /\ task[w].next_run < clock
        /\ start_time[w] = clock

----------------------------------------------------------------------------
(* Claims about the cleanups *)

\* C20: after cleanup_failed(max) no row with status FAILED and fail_count >= max
\* remains in the store, and the number returned is the number of rows removed.
\* Stated of the statement applied to every reachable table, and of every step
\* that executes it.
C20_CleanupFailed ==
    /\ [](\A m \in {2, 3} :
            LET after == cleanup_failed_proxies(rows, m)
            IN  /\ \A i \in DOMAIN after :
                     ~(after[i].status = FAILED /\ after[i].fail_count >= m)
                /\ \A i \in DOMAIN after : i \in DOMAIN rows /\ after[i] = rows[i]
                /\ cleanup_failed_proxies_result(rows, m) =
                     Cardinality(DOMAIN rows \ DOMAIN after))
    /\ [][\A m \in {2, 3} :
            CleanupFailed(m) =>
               /\ \A i \in DOMAIN rows' :
                    ~(rows'[i].status = FAILED /\ rows'[i].fail_count >= m)
               /\ cleanup_failed_proxies_result(rows, m) =
                    Cardinality(DOMAIN rows \ DOMAIN rows')
         ]_vars

\* C20 witness: at time 0 (no row is stale) a row that failed twice is gone and
\* a row that failed once is still there
C20_Witness ==
    /\ now = 0
    /\ \E i \in 1..MaxId :
         /\ i \notin DOMAIN rows
         /\ Len(calls[i]) = 2
         /\ ~calls[i][1].is_success /\ ~calls[i][2].is_success
    /\ \E j \in DOMAIN rows : rows[j].status = FAILED /\ rows[j].fail_count = 1

\* a row of table tbl that is stale at time t for the given number of days
Stale(tbl, i, days, t) ==
    \/ tbl[i].last_success # NULL /\ tbl[i].last_success < t - days
    \/ tbl[i].last_success = NULL /\ tbl[i].created_at < t - days

\* C21: after cleanup_stale(days) no row remains whose last_success is older
\* than now - days, nor any row with null last_success whose created_at is
\* older than now - days. Stated of the statement applied to every reachable
\* table now or one tick later, and of every step that executes it.
C21_CleanupStale ==
    /\ [](\A d \in {0, 1} : \A t \in {now, now + 1} :
            LET after == cleanup_stale_proxies(rows, d, t)
            IN  /\ \A i \in DOMAIN after : ~Stale(after, i, d, t)
                /\ \A i \in DOMAIN after : i \in DOMAIN rows /\ after[i] = rows[i]
                /\ \A i \in DOMAIN rows \ DOMAIN after : Stale(rows, i, d, t))
    /\ [][\A d \in {0, 1} :
            CleanupStale(d) => \A i \in DOMAIN rows' : ~Stale(rows', i, d, now)
         ]_vars

\* C21 witness: at time 1 a row whose last verdict was a success is gone, and a
\* row that succeeded at time 1 is still there
C21_Witness ==
    /\ now = 1
    /\ \E i \in 1..MaxId :
         /\ i \notin DOMAIN rows
         /\ calls[i] # <<>>
         /\ Last(calls[i]).is_success
    /\ \E j \in DOMAIN rows : rows[j].last_success = 1

\* C22: after an execution of the cleanup task no row with status = FAILED
\* and fail_count >= MAX_FAIL remains, MAX_FAIL being the configured
\* max_fail_count; here the configured value is 2.
C22_CleanupUsesSetting ==
    \A i \in DOMAIN cleanup_task_rows(rows, now) :
        ~(rows[i].status = FAILED /\ rows[i].fail_count >= 2)

(* Claims about the queries *)

\* C23: iter_pending(limit, max_fail) returns at most limit rows, every one
\* with fail_count < max_fail and status PENDING or FAILED, ordered by
\* last_checked ascending with the never-checked rows first; no SUCCESS row and
\* no row with fail_count >= max_fail is returned.
C23_IterPending ==
    \A limit \in 1..2 : \A max_fail \in 1..3 :
        LET answers == get_proxies_needing_validation(rows, limit, max_fail)
        IN  /\ answers # {}
            /\ \A s \in answers :
                 /\ Len(s) <= limit
                 /\ \A k \in 1..Len(s) :
                      /\ s[k] \in DOMAIN rows
                      /\ rows[s[k]].fail_count < max_fail
                      /\ rows[s[k]].status \in {PENDING, FAILED}
                      /\ rows[s[k]].status # SUCCESS
                 /\ \A k, l \in 1..Len(s) :
                      k < l =>
                        \/ rows[s[k]].last_checked = NULL
                        \/ /\ rows[s[l]].last_checked # NULL
                           /\ rows[s[k]].last_checked <= rows[s[l]].last_checked

\* C23 witness: a never-checked PENDING row and a FAILED row with one failure;
\* both are returned in that order under threshold 3, only the first under
\* threshold 1 or limit 1
C23_Witness ==
    \E i, j \in DOMAIN rows :
        /\ rows[i].status = PENDING /\ rows[i].last_checked = NULL
        /\ rows[j].status = FAILED /\ rows[j].fail_count = 1
        /\ get_proxies_needing_validation(rows, 2, 3) = {<<i, j>>}
        /\ get_proxies_needing_validation(rows, 2, 1) = {<<i>>}
        /\ get_proxies_needing_validation(rows, 1, 3) = {<<i>>}

\* the filter values a request may carry: absent, empty, or a text in any case
ProtocolFilters == {NONE, "", "http", "HTTP", "socks5"}
CountryFilters == {NONE, "us", "US", "DE"}
AnonymityFilters == {NONE, "Elite", "elite", "transparent"}

\* C24: iter_active returns only rows whose status is SUCCESS at query time and
\* that match every supplied protocol, country and anonymity filter, ordered by
\* last_success descending and then success_count descending; a proxy whose
\* most recent verdict was a failure is never returned.
C24_IterActive ==
    \A protocol \in ProtocolFilters : \A country \in CountryFilters :
    \A anonymity \in AnonymityFilters : \A limit \in 1..2 :
        LET answers == get_active_proxies(rows, protocol, country, anonymity, limit)
        IN  /\ answers # {}
            /\ \A s \in answers :
                 /\ Len(s) <= limit
                 /\ \A k \in 1..Len(s) :
                      /\ s[k] \in DOMAIN rows
                      /\ rows[s[k]].status = SUCCESS
                      /\ Supplied(protocol) =>
                           lower(rows[s[k]].protocol) = lower(protocol)
                      /\ Supplied(country) =>
                           lower(rows[s[k]].country) = lower(country)
                      /\ Supplied(anonymity) =>
                           lower(rows[s[k]].anonymity) = lower(anonymity)
                      /\ calls[s[k]] # <<>> /\ Last(calls[s[k]]).is_success
                 /\ \A k, l \in 1..Len(s) :
                      k < l =>
                        /\ rows[s[k]].last_success # NULL
                        /\ rows[s[l]].last_success # NULL
                        /\ rows[s[k]].last_success >= rows[s[l]].last_success
                        /\ rows[s[k]].last_success = rows[s[l]].last_success
                             => rows[s[k]].success_count >= rows[s[l]].success_count

\* C24 witness: two SUCCESS rows, the second validated later; without filters
\* the later one comes first, and the filters "HTTP" and "Elite" select one
C24_Witness ==
    \E i, j \in DOMAIN rows :
        /\ rows[i].status = SUCCESS /\ rows[j].status = SUCCESS
        /\ rows[i].last_success = 0 /\ rows[j].last_success = 1
        /\ get_active_proxies(rows, NONE, NONE, NONE, 2) = {<<j, i>>}
        /\ get_active_proxies(rows, NONE, NONE, NONE, 1) = {<<j>>}
        /\ \E s \in get_active_proxies(rows, "HTTP", NONE, "Elite", 2) : Len(s) = 1

(* Claims about the validator *)

C27_WorkingIff2xx ==
    \A i \in DOMAIN check :
        (check[i] = "done" /\ gathered[i].tuple) =>
            LET v == gathered[i]
                is2xx == /\ outcome[i].kind = "response"
                         /\ outcome[i].status_code \in 200..299
            IN  /\ v.success <=> is2xx
                /\ ~is2xx => v = Verdict(proxies[i].id, FALSE, NULL, NONE)
                /\ v.success => v.speed # NULL /\ v.anonymity # NONE

\* the checks of the batch that hold a permit
InFlight == { i \in DOMAIN check : check[i] = "inflight" }

\* C28: during a validate_batch call the number of proxy checks in flight at
\* the same time never exceeds MAX_CONCURRENT_VALIDATORS, and every proxy of
\* the batch is eventually checked.
C28_BoundedFanOut ==
    /\ [](Cardinality(InFlight) <= max_concurrent)
    /\ \A i \in 1..MaxProxies :
         (pcv = "gather" /\ i \in DOMAIN check /\ check[i] = "waiting")
            ~> (i \in DOMAIN check /\ check[i] = "done")

\* C28 witness: every permit is taken, one check is in flight and another waits
C28_Witness ==
    /\ pcv = "gather"
    /\ semaphore = 0
    /\ Cardinality(InFlight) = max_concurrent
    /\ \E i \in DOMAIN check : check[i] = "waiting"

\* some header value of the classified response contains the proxy's address
OwnIpInSomeValue ==
    \E k \in DOMAIN classified.headers.fields :
        Contains(classified.proxy_ip, classified.headers.fields[k])

\* the header names the specification calls suspicious
SuspiciousNames ==
    {"x-forwarded-for", "x-real-ip", "via", "x-proxy-id", "proxy-connection",
     "forwarded", "client-ip", "x-client-ip"}

\* C29: the classifier returns transparent whenever some header value contains
\* the proxy's own IP, and only then.
C29_TransparentIffOwnIp ==
    classified.called =>
        (classified.level = "transparent" <=> OwnIpInSomeValue)

\* C30: when no header value contains the proxy's IP, the classifier returns
\* anonymous iff some header name, compared without regard to case, is in the
\* suspicious set with a non-empty value, and elite otherwise.
C30_AnonymousIffSuspicious ==
    (classified.called /\ ~OwnIpInSomeValue) =>
        LET suspicious ==
                \E k \in DOMAIN classified.headers.fields :
                    /\ lower(k) \in SuspiciousNames
                    /\ classified.headers.fields[k] # <<>>
        IN  /\ suspicious => classified.level = "anonymous"
            /\ ~suspicious => classified.level = "elite"

(* Claims about the crawl *)

\* C31: run_all returns one entry per enabled spider, in registration order; a
\* spider that raises or times out yields an error marker at its position
\* instead of a thrown error, and the lists of the other spiders are returned
\* and merged into the store unaffected.
C31_RunAllEntries ==
    spider_runs # <<>> =>
        /\ spiders = <<Registry[1], Registry[3]>>
        /\ Len(crawl_results) = Len(spiders)
        /\ \A i \in DOMAIN spiders :
             IF spider_runs[i].kind = "list"
             THEN /\ crawl_results[i].list
                  /\ crawl_results[i].proxies =
                        fetch_proxies(spider_runs[i].raws, spiders[i].name)
             ELSE ~crawl_results[i].list
        /\ crawl_pc = "idle" =>
             \A i \in DOMAIN spiders :
                (crawl_results[i].list /\ i \notin store_faults) =>
                    \A k \in DOMAIN crawl_results[i].proxies :
                        \E r \in DOMAIN rows :
                            KeyOf(rows[r]) = KeyOf(crawl_results[i].proxies[k])

\* C31 witness: a crawl is over in which the first spider raised and the proxy
\* the second one fetched is in the store
C31_Witness ==
    /\ crawl_pc = "idle"
    /\ spider_runs # <<>>
    /\ spider_runs[1].kind = "raise"
    /\ spider_runs[2].kind = "list"
    /\ store_faults = {}
    /\ \E r \in DOMAIN rows : rows[r].source = "github"

\* C32: every row in the store has protocol in {http, https, socks4, socks5}
\* and port in [1, 65535]: a candidate whose IP, port or protocol is invalid is
\* dropped before the merge.
C32_RowsAreValid ==
    \A r \in DOMAIN rows :
        /\ rows[r].protocol \in {"http", "https", "socks4", "socks5"}
        /\ rows[r].port >= 1 /\ rows[r].port <= 65535

(* Claims about start-up and shutdown *)

\* C33: if the initial store connect fails, scheduler initialization fails:
\* the worker registers no tasks, never reaches the running state, and does
\* not take the leader lock.
C33_NoStoreNoStart ==
    /\ [](\A w \in Workers :
            pc[w] = "store_down" =>
                task[w] = NoTask /\ ~running[w] /\ ~shared[w])
    /\ [][\A w \in Workers :
            InitializeStoreDown(w) =>
                /\ lock' = lock
                /\ shared' = shared
                /\ task'[w] = NoTask
                /\ ~running'[w]
         ]_vars

\* C33 witness: one worker failed on the store with the lock free, and the
\* other then took the lock and runs
C33_Witness ==
    /\ pc["w1"] = "store_down"
    /\ shared["w2"]
    /\ running["w2"]

\* C34: each validate_batch uses an HTTP session of its own: closing the
\* session at the end of one validation task never closes a session that a
\* request of the other validation task of the worker, still in flight, is on.
C34_SessionPerBatch ==
    \A t \in ValidationTasks :
        \A i \in DOMAIN requests[t] :
            requests[t][i].state = "sent" => requests[t][i].on \notin closed

\* a row Pending-Revalidation selects from
Eligible(i) ==
    /\ i \in DOMAIN rows
    /\ rows[i].fail_count < max_fail_count
    /\ rows[i].status \in {PENDING, FAILED}

C36_NotBeforeNextRun ==
    [][\A w \in Workers :
         (pc[w] # "func" /\ pc'[w] = "func") =>
             (task[w].next_run = NULL \/ clock >= task[w].next_run)
      ]_vars

\* C36 witness: after a first run the loop slept until next_run and the task
\* runs again
C36_Witness ==
    /\ pc["w1"] = "func"
    /\ Len(runs["w1"]) >= 1
    /\ wake["w1"] # NULL
    /\ start_time["w1"] >= wake["w1"]
    /\ task["w1"].next_run = wake["w1"]

\* C37: after stop() has returned no invocation of a task's func begins in
\* that worker; a loop that was sleeping when stop() was called leaves when
\* it wakes, without running the task again.
C37_NoRunAfterStop ==
    [][\A w \in Workers :
         (pc[w] # "func" /\ pc'[w] = "func") => running[w]
      ]_vars

\* C38: once stop() has closed the cache, the worker's cache client stays
\* closed: no task still in flight or finishing after stop() opens the
\* connection again.
C38_CacheStaysClosed ==
    \A w \in Workers : stopped[w] => ~client[w]

(* Claims about several workers *)

\* C39: in every reachable state every row has 0 <= fail_count <=
\* max_fail_count, for any number of workers running Pending-Revalidation
\* beside the Success-Revalidation task; here the configured value is 2 and
\* two workers run Pending-Revalidation.
C39_FailCountBounded ==
    \A i \in DOMAIN rows : 0 <= rows[i].fail_count /\ rows[i].fail_count <= 2

\* C40: the state a worker restores at initialization for its per-worker
\* task is the state this same worker last persisted: executions of the task
\* of the same name in other workers do not change the execution_count,
\* failure_count, last_run or next_run it restores.
C40_RestoresOwnState ==
    [][\A w \in Workers :
         (cache.present /\ Initialize(w, 1, TRUE)) =>
             /\ persisted[w].present
             /\ task'[w].execution_count = persisted[w].execution_count
             /\ task'[w].failure_count = persisted[w].failure_count
             /\ task'[w].last_run = persisted[w].last_run
             /\ task'[w].next_run = persisted[w].next_run
      ]_vars

====
